---- MODULE Spec2Model ----
(***************************************************************************)
(* The whiteboard's canvas interaction engine (components/Canvas.tsx) and  *)
(* the application state it drives (App.tsx, the version with undo/redo    *)
(* and auto-layout): notes, connections, selection, camera, the pointer    *)
(* interaction session, and the undo/redo stacks.                          *)
(*                                                                         *)
(* Every event handler runs to completion on the UI thread and React       *)
(* re-renders before the next event, so one action is one handler with     *)
(* every callback it invokes; the handler reads the props of the last      *)
(* render, i.e. the unprimed state.                                        *)
(*                                                                         *)
(* Numbers: screen and world coordinates are integers; camera.z is kept in *)
(* thousandths (1000 is zoom 1), the resolution of the wheel sensitivity.  *)
(***************************************************************************)
EXTENDS Integers, Sequences, FiniteSets, TLC

\* ------------------------------------------------------------------ bounds
\* Note ids the model hands out, the initial note's included (the code draws
\* random strings): at most MaxNotes notes are ever created.
MaxNotes == 2
\* Connection ids the model hands out.
MaxConns == 2
\* Presses the user makes before a release arrives (a second press without a
\* release is another button going down, or a press after a lost mouseup).
MaxPresses == 2
\* Snapshots the undo stack remembers where undo is exercised: undo reaches
\* back MaxHist steps (the code's stack is unbounded), older snapshots are
\* forgotten.
MaxHist == 1
\* Notes and connections of the boards auto-layout and handleConnect are
\* exercised on, fresh connection ids a run of handleConnect calls may use, and
\* the handleConnect calls the log keeps.
MaxBoardNotes == 3
MaxBoardConns == 3
MaxConnects == 4
MaxLogged == 2
\* Where text generation is exercised: generation requests a run starts, and
\* the ideas the service returns for one request at most.
MaxRequests == 2
MaxIdeas == 2
\* Where zooming is exercised: how many times a run sets the zoom, and how far
\* from the origin the camera offset goes.
MaxZooms == 3
CameraReach == 3000

\* ------------------------------------------------------- program constants
ZoomUnit == 1000
InitNoteX == 100
InitNoteY == 100
InitNoteW == 280
InitNoteH == 160
NoteW == 280
NoteH == 140
HalfNoteW == 140
HalfNoteH == 70
ClickThreshold == 5
deleteZoneSize == 200

\* JS null / undefined for ids and optional records.
NULL == 0

\* The browser window (window.innerWidth, window.innerHeight).
Window == [innerWidth |-> 1200, innerHeight |-> 800]

\* Screen points pointer events are drawn from: inside the initial note, on
\* empty canvas right of it, inside the delete zone.
Points == { [x |-> 200, y |-> 200], [x |-> 700, y |-> 200], [x |-> 1100, y |-> 700] }

\* MouseEvent.button: 0 primary, 1 auxiliary (wheel), 2 secondary.
Buttons == {0, 1, 2}

\* MouseEvent.buttons of a move: 0 no button held, otherwise some button held.
\* mousemove and mouseup are window listeners: they arrive for any button,
\* whether or not its press reached the canvas, and a mouseup can be lost
\* (released outside the window), so a release may arrive in any state and a
\* move may report either mask.
ButtonMasks == {0, 1}

\* Camera offsets the model lets a pan reach: a long pan to the right, and the
\* short ones of a pointer that moves a few pixels at a time.
CamOffsets == { [x |-> 0, y |-> 0], [x |-> 500, y |-> 0] }
                  \cup { [x |-> d, y |-> 0] : d \in -6..6 }

\* The user keeps every note inside the window frame (in world coordinates):
\* a drag or a creation that would put one outside is not modelled.
InWorld(ns) ==
    \A i \in 1..Len(ns) : /\ 0 <= ns[i].x /\ ns[i].x + ns[i].w <= Window.innerWidth
                          /\ 0 <= ns[i].y /\ ns[i].y + ns[i].h <= Window.innerHeight

NoteIds == 1..MaxNotes
ConnIds == 1..MaxConns

\* ----------------------------------------------------------------- helpers
Abs(a) == IF a < 0 THEN 0 - a ELSE a
Min(a, b) == IF a < b THEN a ELSE b
Max(a, b) == IF a > b THEN a ELSE b

\* The least and the greatest of a set of numbers.
Least(S) == CHOOSE v \in S : \A u \in S : v <= u
Greatest(S) == CHOOSE v \in S : \A u \in S : u <= v

Range(s) == { s[i] : i \in 1..Len(s) }
Ids(s) == { s[i].id : i \in 1..Len(s) }

\* notes.find(n => n.id === id); only used where the note exists.
NoteOf(ns, id) == CHOOSE n \in Range(ns) : n.id = id

VARIABLES
    notes,                \* App: NoteData[] (id, position, size)
    connections,          \* App: Connection[] (id, fromId, toId)
    camera,               \* App: Camera
    selectedNoteIds,      \* App: string[] (its order is never observed)
    selectedConnectionId, \* App: string | null
    connectionStyle,      \* App: ConnectionStyle
    contextMenu,          \* App: {x, y} | null
    past, future,         \* App: HistoryState[]
    interactionState,     \* Canvas: interactionState.current
    selectionBox,         \* Canvas: {x, y, w, h} | null
    nextNoteId,           \* the next fresh note id (stands for Math.random)
    nextConnId,           \* the next fresh connection id
    pressCount,           \* presses since the last release reached the window
    limits,               \* what the user does in this run: how many snapshots the
                          \* undo stack holds, presses between releases, notes and
                          \* connections ever created, handleConnect calls logged,
                          \* times the zoom is set, generation requests started,
                          \* whether the notes' elements are watched, which App
                          \* (the one with the toolbar, the one with placeholders)
    session,              \* history variable: the open session's press and last move
    connectLog,           \* history variable: the last handleConnect calls
    zoomLog,              \* history variable: how many times the zoom was set, and
                          \* the last wheel event
    generation,           \* text generation: isBrainstorming, errorMsg, the requests
                          \* awaiting the service, and how many were started
    noteTransforms        \* Canvas: the style.transform of the notes' elements in
                          \* noteRefs.current, for the elements shown displaced (in
                          \* the runs that watch them)

vars == << notes, connections, camera, selectedNoteIds, selectedConnectionId,
           connectionStyle, contextMenu, past, future, interactionState,
           selectionBox, nextNoteId, nextConnId, pressCount, limits, session,
           connectLog, zoomLog, generation, noteTransforms >>

\* ------------------------------------------------------------- fresh ids
\* Math.random().toString(36).substr(2, 9): an id nothing else carries.  The
\* model hands the ids out in increasing order.
HasFreshNoteId == nextNoteId <= limits.notes
HasFreshConnId == nextConnId <= limits.conns
FreshNoteId == nextNoteId
FreshConnId == nextConnId

\* ------------------------------------------------------------ App: graph
\* A handleConnect updater whose toggle-off drops every connection of the source.
ConnectTogglingSource(prev, sourceId, targetId, newId) ==
    IF \E i \in 1..Len(prev) : prev[i].fromId = sourceId /\ prev[i].toId = targetId
    THEN SelectSeq(prev, LAMBDA c : c.fromId # sourceId)
    ELSE Append(SelectSeq(prev, LAMBDA c : ~(c.fromId = targetId /\ c.toId = sourceId)),
                [id |-> newId, fromId |-> sourceId, toId |-> targetId])

\* A handleConnect updater that replaces a reverse edge by a new edge of the
\* same direction.
ConnectKeepingDirection(prev, sourceId, targetId, newId) ==
    IF \E i \in 1..Len(prev) : prev[i].fromId = sourceId /\ prev[i].toId = targetId
    THEN SelectSeq(prev, LAMBDA c : ~(c.fromId = sourceId /\ c.toId = targetId))
    ELSE IF \E i \in 1..Len(prev) : prev[i].fromId = targetId /\ prev[i].toId = sourceId
    THEN Append(SelectSeq(prev, LAMBDA c : ~(c.fromId = targetId /\ c.toId = sourceId)),
                [id |-> newId, fromId |-> targetId, toId |-> sourceId])
    ELSE Append(prev, [id |-> newId, fromId |-> sourceId, toId |-> targetId])

\* A handleConnect updater that appends without replacing a reverse edge.
ConnectKeepingReverse(prev, sourceId, targetId, newId) ==
    IF \E i \in 1..Len(prev) : prev[i].fromId = sourceId /\ prev[i].toId = targetId
    THEN SelectSeq(prev, LAMBDA c : ~(c.fromId = sourceId /\ c.toId = targetId))
    ELSE Append(prev, [id |-> newId, fromId |-> sourceId, toId |-> targetId])

\* A handleConnect updater whose flip drops every connection that leaves the
\* target.
ConnectFlipDroppingTarget(prev, sourceId, targetId, newId) ==
    IF \E i \in 1..Len(prev) : prev[i].fromId = sourceId /\ prev[i].toId = targetId
    THEN SelectSeq(prev, LAMBDA c : ~(c.fromId = sourceId /\ c.toId = targetId))
    ELSE IF \E i \in 1..Len(prev) : prev[i].fromId = targetId /\ prev[i].toId = sourceId
    THEN Append(SelectSeq(prev, LAMBDA c : c.fromId # targetId),
                [id |-> newId, fromId |-> sourceId, toId |-> targetId])
    ELSE Append(prev, [id |-> newId, fromId |-> sourceId, toId |-> targetId])

\* handleConnect's state updater: toggle off a forward edge, replace a reverse
\* edge, else append.  newId is the new connection's id.
ConnectUpdater(prev, sourceId, targetId, newId) ==
    LET fwd == { i \in 1..Len(prev) : prev[i].fromId = sourceId /\ prev[i].toId = targetId }
        rev == { i \in 1..Len(prev) : prev[i].fromId = targetId /\ prev[i].toId = sourceId }
        First(S) == CHOOSE i \in S : \A j \in S : i <= j
    IN  IF fwd # {}
        THEN LET f == prev[First(fwd)] IN SelectSeq(prev, LAMBDA c : c.id # f.id)
        ELSE LET newConnections ==
                     IF rev # {}
                     THEN LET r == prev[First(rev)] IN SelectSeq(prev, LAMBDA c : c.id # r.id)
                     ELSE prev
             IN  Append(newConnections, [id |-> newId, fromId |-> sourceId, toId |-> targetId])

\* handleDeleteNotes' first updater.
DeleteNotesUpdater(prev, ids) == SelectSeq(prev, LAMBDA n : n.id \notin ids)

\* A connection filter that looks at the source endpoint only.
DeleteConnsFromOnly(prev, ids) == SelectSeq(prev, LAMBDA c : c.fromId \notin ids)

\* handleDeleteNotes' second updater.
DeleteConnsUpdater(prev, ids) == SelectSeq(prev, LAMBDA c : c.fromId \notin ids /\ c.toId \notin ids)

\* createNote's new text note.
NewNote(id, pos) == [id |-> id, x |-> pos.x, y |-> pos.y, w |-> NoteW, h |-> NoteH]

\* handleNoteMove's updater: selectedNoteIds.includes(id) moves the selection,
\* otherwise the one note.
MoveUpdater(prev, sel, id, delta) ==
    [ i \in 1..Len(prev) |->
        IF (IF id \in sel THEN prev[i].id \in sel ELSE prev[i].id = id)
        THEN [prev[i] EXCEPT !.x = @ + delta.x, !.y = @ + delta.y]
        ELSE prev[i] ]

\* saveHistory: push the rendered notes and connections, clear the redo stack.
Remember(h) == IF Len(h) > limits.hist THEN Tail(h) ELSE h
SavedPast == Remember(Append(past, [notes |-> notes, connections |-> connections]))

\* --------------------------------------------------------- Canvas: geometry
\* screenToWorld: (screen - camera offset) / camera.z.
screenToWorld(pt, cam) ==
    [x |-> ((pt.x - cam.x) * ZoomUnit) \div cam.z,
     y |-> ((pt.y - cam.y) * ZoomUnit) \div cam.z]

\* The squared screen distance of two points; the code takes Math.sqrt of it.
DistSq(a, b) == (a.x - b.x) * (a.x - b.x) + (a.y - b.y) * (a.y - b.y)

\* dragDistance is kept as its square, saturated just above the click
\* threshold: the code only ever compares it with 5.
ThresholdSq == ClickThreshold * ClickThreshold

Saturate(d) == Min(d, ThresholdSq + 1)

\* The DOM's hit test for the canvas itself: #canvas-content (containerRef)
\* fills the window, translated by the camera offset and scaled by the zoom
\* about its top-left corner.
OnContent(pt, cam) ==
    /\ cam.x <= pt.x /\ (pt.x - cam.x) * ZoomUnit < Window.innerWidth * cam.z
    /\ cam.y <= pt.y /\ (pt.y - cam.y) * ZoomUnit < Window.innerHeight * cam.z

\* The DOM's hit test: the press lands on the note whose box holds the point.
PointInNote(pt, n, cam) ==
    LET wp == screenToWorld(pt, cam)
    IN  /\ n.x <= wp.x /\ wp.x < n.x + n.w
        /\ n.y <= wp.y /\ wp.y < n.y + n.h

\* handleMouseMove, SELECTING: the ids of the notes whose box strictly overlaps
\* the rectangle spanned by the press point and the cursor (world space).
BoxHits(ns, start, worldPos) ==
    LET newW == worldPos.x - start.x
        newH == worldPos.y - start.y
        x == IF newW < 0 THEN start.x + newW ELSE start.x
        y == IF newH < 0 THEN start.y + newH ELSE start.y
        w == Abs(newW)
        h == Abs(newH)
    IN  { n.id : n \in { m \in Range(ns) :
                           /\ m.x < x + w /\ m.x + m.w > x
                           /\ m.y < y + h /\ m.y + m.h > y } }

\* handleMouseMove, DRAGGING_NOTES: the cursor is within deleteZoneSize of the
\* window's bottom-right corner.
InDeleteZone(pt) ==
    DistSq(pt, [x |-> Window.innerWidth, y |-> Window.innerHeight])
        < deleteZoneSize * deleteZoneSize

\* The margin, in screen pixels, around a note in which a connect gesture
\* finds it.
HoverBuffer == 20

\* A hover search that, of two candidates as near, keeps the later one.
HoverTargetLastOnTies(ns, startId, worldPos, cam) ==
    LET buffer == (HoverBuffer * ZoomUnit) \div cam.z
        cand == { i \in 1..Len(ns) :
                    /\ ns[i].id # startId
                    /\ worldPos.x >= ns[i].x - buffer
                    /\ worldPos.x <= ns[i].x + ns[i].w + buffer
                    /\ worldPos.y >= ns[i].y - buffer
                    /\ worldPos.y <= ns[i].y + ns[i].h + buffer }
        d(i) == DistSq(worldPos, [x |-> ns[i].x + ns[i].w \div 2,
                                  y |-> ns[i].y + ns[i].h \div 2])
    IN  IF cand = {} THEN NULL
        ELSE ns[CHOOSE i \in cand :
                    \A j \in cand : d(i) < d(j) \/ (d(i) = d(j) /\ i >= j)].id

\* handleMouseMove, CONNECTING: the note other than the source whose box,
\* grown by 20 / zoom, holds the cursor and whose centre is nearest (the first
\* such note in array order); null when there is none.
HoverTarget(ns, startId, worldPos, cam) ==
    LET buffer == (HoverBuffer * ZoomUnit) \div cam.z
        cand == { i \in 1..Len(ns) :
                    /\ ns[i].id # startId
                    /\ worldPos.x >= ns[i].x - buffer
                    /\ worldPos.x <= ns[i].x + ns[i].w + buffer
                    /\ worldPos.y >= ns[i].y - buffer
                    /\ worldPos.y <= ns[i].y + ns[i].h + buffer }
        d(i) == DistSq(worldPos, [x |-> ns[i].x + ns[i].w \div 2,
                                  y |-> ns[i].y + ns[i].h \div 2])
    IN  IF cand = {} THEN NULL
        ELSE ns[CHOOSE i \in cand :
                    \A j \in cand : d(i) < d(j) \/ (d(i) = d(j) /\ i <= j)].id

\* ------------------------------------------------------------------- Init
\* "no context menu" and "no selection box" (null in the code).
NoMenu == [x |-> -1, y |-> -1]
NoBox == [shown |-> FALSE, x |-> 0, y |-> 0, w |-> 0, h |-> 0]

INITIAL_NOTE == [id |-> 1, x |-> InitNoteX, y |-> InitNoteY, w |-> InitNoteW, h |-> InitNoteH]

InitInteraction ==
    [mode |-> "NONE",
     dragStart |-> [x |-> 0, y |-> 0],
     dragDistance |-> 0,
     connectionStartId |-> NULL,
     selectionStartWorld |-> [x |-> 0, y |-> 0],
     potentialSelectionIds |-> {},
     currentHoveredTargetId |-> NULL,
     isOverDeleteZone |-> FALSE,
     dragDelta |-> [x |-> 0, y |-> 0]]

\* No session is open; exit names the App callback the last pointer-up
\* that closed a session called on the notes or connections.
NoSession == [mode |-> "NONE", pressPt |-> [x |-> 0, y |-> 0], lastPt |-> [x |-> 0, y |-> 0],
              moved |-> FALSE, shift |-> FALSE, notes |-> << >>, exit |-> "none",
              noteId |-> NULL, reach |-> 0, far |-> FALSE, offset |-> [x |-> 0, y |-> 0]]

\* The zoom was never set and no wheel event came; otherwise the number of
\* times it was set and, of the last wheel event, the cursor, whether the zoom
\* it asked for was outside the clamp, and whether it changed the zoom.
NoWheel == [count |-> 0, pt |-> [x |-> 0, y |-> 0], clamped |-> FALSE, zoomed |-> FALSE]

\* No generation request was made: the button is enabled, no notice shows.
NoGeneration == [isBrainstorming |-> FALSE, errorMsg |-> "", inFlight |-> {}, started |-> 0]

\* The zoom is set once more.
Zoomed(log) == [log EXCEPT !.count = @ + 1]

\* The record of the session a press opens: the mode it entered, where the
\* press was, whether shift was held, and the notes as they were; noteId is
\* the note pressed, null for a press on the canvas, reach how far from the
\* press point a move has been (squared, cut just above the click threshold),
\* offset the camera offset at the press.
Opened(mode, pt, shift) ==
    [mode |-> mode, pressPt |-> pt, lastPt |-> pt, moved |-> FALSE, shift |-> shift,
     notes |-> notes, exit |-> "none", noteId |-> NULL, reach |-> 0, far |-> FALSE,
     offset |-> [x |-> camera.x, y |-> camera.y]]

\* How far from the press point the pointer has been once it is seen at pt
\* (squared, saturated just above the click threshold).
Reach(pt) ==
    Max(session.reach,
        Min(DistSq(pt, session.pressPt), ClickThreshold * ClickThreshold + 1))

\* The session record after a move to pt; far: some move found the pointer
\* more than the click threshold away from the press point.
Moved(pt) ==
    [session EXCEPT !.lastPt = pt, !.moved = TRUE, !.reach = Reach(pt),
                    !.far = @ \/ DistSq(pt, session.pressPt) > ClickThreshold * ClickThreshold]

\* The session record after a further press at pt: the open session has seen
\* the pointer there; with no session open there is nothing to record.
Pressed(pt) ==
    IF session.mode = "NONE" THEN session ELSE [session EXCEPT !.reach = Reach(pt)]

\* The App and the Canvas as constructed, or with the board ns, conns a user
\* has built.
InitBoard(l, ns, conns) ==
    /\ limits = l
    /\ session = NoSession
    /\ connectLog = << >>
    /\ zoomLog = NoWheel
    /\ generation = NoGeneration
    /\ noteTransforms = {}
    /\ notes = ns
    /\ connections = conns
    /\ camera = [x |-> 0, y |-> 0, z |-> ZoomUnit]
    /\ selectedNoteIds = {}
    /\ selectedConnectionId = NULL
    /\ connectionStyle = "curve"
    /\ contextMenu = NoMenu
    /\ past = << >>
    /\ future = << >>
    /\ interactionState = InitInteraction
    /\ selectionBox = NoBox
    /\ nextNoteId = Len(ns) + 1
    /\ nextConnId = Len(conns) + 1
    /\ pressCount = 0

InitWith(l) == InitBoard(l, << INITIAL_NOTE >>, << >>)

\* The main specification exercises the pointer engine one press per session
\* and keeps no undo snapshots; SpecHistory and SpecPress lift one limit each.
\* Gestures: the limits of a run of pointer gestures.
Gestures(hist, presses) ==
    [hist |-> hist, presses |-> presses, notes |-> MaxNotes, conns |-> MaxConns, log |-> 0,
     zooms |-> 0, reqs |-> 0, dom |-> 0, app |-> "toolbar"]

Init == InitWith(Gestures(0, 1))

\* The offset the element of note id is drawn at, (0, 0) for an element with
\* no transform or a translate3d by nothing.
TransformOf(id) ==
    IF \E t \in noteTransforms : t.id = id
    THEN LET t == CHOOSE t \in noteTransforms : t.id = id IN [x |-> t.x, y |-> t.y]
    ELSE [x |-> 0, y |-> 0]

\* The elements a render of the notes ns keeps: NoteCard is keyed by the
\* note's id, and a note that comes back is drawn by a new element.
Mounted(transforms, ns) == { t \in transforms : t.id \in Ids(ns) }

\* el.style.transform = '' on the elements of the notes ids.
TransformsReset(transforms, ids) == { t \in transforms : t.id \notin ids }

\* el.style.transform = translate3d(delta) on the elements of the notes ids
\* (noteRefs.current has an element for the notes that are drawn).
TransformsWritten(transforms, ids, delta) ==
    IF limits.dom = 0 THEN transforms
    ELSE TransformsReset(transforms, ids)
             \cup (IF delta.x = 0 /\ delta.y = 0 THEN {}
                   ELSE { [id |-> id, x |-> delta.x, y |-> delta.y] :
                              id \in ids \cap Ids(notes) })

\* Where the notes are drawn: handleMouseMove writes translate(dragDelta) on
\* the selected notes' elements while DRAGGING_NOTES, so until the release a
\* press lands on a dragged note at its displaced box.  A run that does not
\* watch the elements takes the transforms from the open session.
Displayed(ns) ==
    [ i \in 1..Len(ns) |->
        IF limits.dom > 0
        THEN [ns[i] EXCEPT !.x = @ + TransformOf(ns[i].id).x,
                           !.y = @ + TransformOf(ns[i].id).y]
        ELSE IF interactionState.mode = "DRAGGING_NOTES" /\ ns[i].id \in selectedNoteIds
        THEN [ns[i] EXCEPT !.x = @ + interactionState.dragDelta.x,
                           !.y = @ + interactionState.dragDelta.y]
        ELSE ns[i] ]

\* ------------------------------------------------------ Canvas: mouse down
\* The three assignments both mouse-down handlers start with.
PressReset(st, pt) ==
    [st EXCEPT !.dragStart = pt, !.dragDistance = 0, !.dragDelta = [x |-> 0, y |-> 0]]

\* handleMouseDown: a press on no note reaches the outer container.  isCanvas:
\* the target is #canvas-content itself and not the part of the container the
\* translated content leaves uncovered.  The open context menu closes on a
\* mouse-down outside it.
CanvasMouseDown(pt, button, shift) ==
    LET isCanvas == OnContent(pt, camera) IN
    /\ pressCount < limits.presses
    /\ pressCount' = pressCount + 1
    /\ UNCHANGED << nextNoteId, nextConnId, limits, noteTransforms, generation, zoomLog, connectLog >>
    /\ \A i \in 1..Len(notes) : ~PointInNote(pt, Displayed(notes)[i], camera)
    /\ contextMenu' = NoMenu
    /\ IF isCanvas /\ button = 0 /\ ~shift
       THEN selectedNoteIds' = {} /\ selectedConnectionId' = NULL
       ELSE UNCHANGED << selectedNoteIds, selectedConnectionId >>
    /\ LET st == PressReset(interactionState, pt)
           worldPos == screenToWorld(pt, camera)
       IN  IF isCanvas /\ button = 2
           THEN /\ interactionState' = [st EXCEPT !.mode = "PANNING"]
                /\ UNCHANGED selectionBox
           ELSE IF isCanvas /\ button = 0
           THEN /\ interactionState' =
                        [st EXCEPT !.mode = "SELECTING",
                                   !.potentialSelectionIds = IF shift THEN @ ELSE {},
                                   !.selectionStartWorld = worldPos]
                /\ selectionBox' = [shown |-> TRUE, x |-> worldPos.x, y |-> worldPos.y,
                                    w |-> 0, h |-> 0]
           ELSE /\ interactionState' = st
                /\ UNCHANGED selectionBox
    /\ UNCHANGED << notes, connections, camera, connectionStyle, past, future >>
    /\ session' = IF interactionState.mode = "NONE" /\ interactionState'.mode # "NONE"
                  THEN Opened(interactionState'.mode, pt, shift) ELSE Pressed(pt)

\* The selection a press always replaces by the pressed note.
PressSelectionReplacing(sel, id, shift) == {id}

\* The selection after a primary press on note id: onNoteSelect is called only
\* when the note is not selected.
PressSelection(sel, id, shift) ==
    IF id \in sel THEN sel
    ELSE IF shift THEN sel \cup {id} ELSE {id}

\* handleNoteMouseDown: the press landed on note id.  onInteractionStart is
\* saveHistory.  The handler stops the event's propagation; whether the
\* context menu's document listener still sees the press (menuCloses) depends
\* on the React version's event delegation.
NoteMouseDown(id, pt, button, shift, menuCloses) ==
    /\ pressCount < limits.presses
    /\ pressCount' = pressCount + 1
    /\ UNCHANGED << nextNoteId, nextConnId, limits, noteTransforms, generation, zoomLog, connectLog >>
    /\ id \in Ids(notes)
    /\ PointInNote(pt, NoteOf(Displayed(notes), id), camera)
    /\ contextMenu' = IF menuCloses THEN NoMenu ELSE contextMenu
    /\ LET st == PressReset(interactionState, pt)
           saves == \/ button = 2
                    \/ button = 0 /\ (id \in selectedNoteIds \/ selectedNoteIds = {})
       IN  /\ IF saves
              THEN past' = SavedPast /\ future' = << >>
              ELSE UNCHANGED << past, future >>
           /\ IF button = 2
              THEN /\ interactionState' = [st EXCEPT !.mode = "CONNECTING",
                                                     !.connectionStartId = id]
                   /\ selectedNoteIds' = {id}
              ELSE IF button = 0
              THEN /\ interactionState' = [st EXCEPT !.mode = "DRAGGING_NOTES"]
                   /\ selectedNoteIds' = PressSelection(selectedNoteIds, id, shift)
              ELSE /\ interactionState' = st
                   /\ UNCHANGED selectedNoteIds
    /\ UNCHANGED << notes, connections, camera, selectedConnectionId, connectionStyle,
                    selectionBox >>
    /\ session' = IF interactionState.mode = "NONE" /\ interactionState'.mode # "NONE"
                  THEN [Opened(interactionState'.mode, pt, shift) EXCEPT !.noteId = id]
                  ELSE Pressed(pt)

\* -------------------------------------------------------- Canvas: mouse up
\* A reset that leaves the hovered target in place.
ResetKeepingHover(st) ==
    [st EXCEPT !.mode = "NONE",
               !.connectionStartId = NULL,
               !.potentialSelectionIds = {},
               !.isOverDeleteZone = FALSE,
               !.dragDelta = [x |-> 0, y |-> 0]]

\* The scratch reset handleMouseUp ends with.
ResetInteraction(st) ==
    [st EXCEPT !.mode = "NONE",
               !.connectionStartId = NULL,
               !.currentHoveredTargetId = NULL,
               !.potentialSelectionIds = {},
               !.isOverDeleteZone = FALSE,
               !.dragDelta = [x |-> 0, y |-> 0]]

\* The log with one more handleConnect call, cut to the calls it keeps.
Logged(log, call) ==
    LET all == Append(log, call)
    IN  IF limits.log = 0 THEN log
        ELSE IF Len(all) > limits.log THEN Tail(all) ELSE all

\* A handleConnect that takes its arguments in the other order.
handleConnectSwapped(sourceId, targetId) ==
    LET fwd == \E i \in 1..Len(connections) :
                   connections[i].fromId = targetId /\ connections[i].toId = sourceId
    IN  /\ fwd \/ HasFreshConnId
        /\ past' = SavedPast /\ future' = << >>
        /\ connections' = ConnectUpdater(connections, targetId, sourceId,
                                         IF fwd THEN NULL ELSE FreshConnId)
        /\ nextConnId' = IF fwd THEN nextConnId ELSE nextConnId + 1
        /\ connectLog' = Logged(connectLog, [sourceId |-> targetId, targetId |-> sourceId,
                                             before |-> connections])

\* handleConnect: saveHistory, then the connections updater.
handleConnect(sourceId, targetId) ==
    LET fwd == \E i \in 1..Len(connections) :
                   connections[i].fromId = sourceId /\ connections[i].toId = targetId
    IN  /\ fwd \/ HasFreshConnId
        /\ past' = SavedPast /\ future' = << >>
        /\ connections' = ConnectUpdater(connections, sourceId, targetId,
                                         IF fwd THEN NULL ELSE FreshConnId)
        /\ nextConnId' = IF fwd THEN nextConnId ELSE nextConnId + 1
        /\ connectLog' = Logged(connectLog, [sourceId |-> sourceId, targetId |-> targetId,
                                             before |-> connections])

\* handleMouseUp, PANNING: a press that never moved 5 px opens the context menu.
UpPanning(pt) ==
    /\ contextMenu' = IF interactionState.dragDistance < ThresholdSq THEN pt ELSE contextMenu
    /\ UNCHANGED << notes, connections, selectedNoteIds, past, future,
                    nextNoteId, nextConnId, connectLog >>

\* handleMouseUp, CONNECTING: onConnect (handleConnect) on a hovered target,
\* onCreateAndConnect (handleCreateAndConnect, createNote) after a drag to
\* empty space, nothing otherwise.
UpConnecting(pt) ==
    LET st == interactionState
        worldPos == screenToWorld(pt, camera)
    IN  IF st.connectionStartId = NULL
        THEN UNCHANGED << notes, connections, selectedNoteIds, contextMenu, past, future,
                          nextNoteId, nextConnId, connectLog >>
        ELSE IF st.currentHoveredTargetId # NULL
        THEN /\ handleConnect(st.connectionStartId, st.currentHoveredTargetId)
             /\ UNCHANGED << notes, selectedNoteIds, contextMenu, nextNoteId >>
        ELSE IF st.dragDistance > ThresholdSq
        THEN /\ HasFreshNoteId /\ HasFreshConnId
             /\ past' = SavedPast /\ future' = << >>
             /\ notes' = Append(notes, NewNote(FreshNoteId,
                                  [x |-> worldPos.x - HalfNoteW, y |-> worldPos.y - HalfNoteH]))
             /\ connections' = Append(connections,
                                  [id |-> FreshConnId, fromId |-> st.connectionStartId,
                                   toId |-> FreshNoteId])
             /\ InWorld(notes')
             /\ nextNoteId' = nextNoteId + 1
             /\ nextConnId' = nextConnId + 1
             /\ UNCHANGED << selectedNoteIds, contextMenu, connectLog >>
        ELSE UNCHANGED << notes, connections, selectedNoteIds, contextMenu, past, future,
                          nextNoteId, nextConnId, connectLog >>

\* handleMouseUp, SELECTING: commit the candidates, joined to the selection
\* when shift is held at release.
UpSelecting(shift) ==
    /\ selectedNoteIds' =
           IF shift THEN selectedNoteIds \cup interactionState.potentialSelectionIds
           ELSE interactionState.potentialSelectionIds
    /\ UNCHANGED << notes, connections, contextMenu, past, future, nextNoteId, nextConnId,
                    connectLog >>

\* handleMouseUp, DRAGGING_NOTES: onDeleteNotes (handleDeleteNotes) over the
\* delete zone, else onNoteMove (handleNoteMove) of a non-zero dragDelta.
UpDragging ==
    LET st == interactionState
    IN  /\ UNCHANGED << nextNoteId, nextConnId, connectLog >>
        /\ IF st.isOverDeleteZone
           THEN /\ past' = SavedPast /\ future' = << >>
                /\ notes' = DeleteNotesUpdater(notes, selectedNoteIds)
                /\ connections' = DeleteConnsUpdater(connections, selectedNoteIds)
                /\ selectedNoteIds' = {}
                /\ UNCHANGED contextMenu
           ELSE IF selectedNoteIds # {} /\ (st.dragDelta.x # 0 \/ st.dragDelta.y # 0)
           THEN /\ notes' = MoveUpdater(notes, selectedNoteIds,
                                        CHOOSE id \in selectedNoteIds : TRUE, st.dragDelta)
                /\ InWorld(notes')
                /\ UNCHANGED << connections, selectedNoteIds, contextMenu, past, future >>
           ELSE UNCHANGED << notes, connections, selectedNoteIds, contextMenu, past, future >>

\* handleMouseUp, DRAGGING_NOTES: the transforms are reset in the branch that
\* commits a move, on the elements of the notes selected at the release; the
\* elements of deleted notes go.
DragEndTransforms ==
    LET st == interactionState
    IN  IF st.isOverDeleteZone
        THEN Mounted(noteTransforms, DeleteNotesUpdater(notes, selectedNoteIds))
        ELSE IF selectedNoteIds # {} /\ (st.dragDelta.x # 0 \/ st.dragDelta.y # 0)
        THEN TransformsReset(noteTransforms, selectedNoteIds)
        ELSE noteTransforms

\* The App callback handleMouseUp calls on the notes or connections in the
\* current state, "none" when it calls none.
ExitAction ==
    LET st == interactionState
    IN  CASE st.mode = "CONNECTING" ->
               IF st.connectionStartId = NULL THEN "none"
               ELSE IF st.currentHoveredTargetId # NULL THEN "connect"
               ELSE IF st.dragDistance > ThresholdSq THEN "createAndConnect"
               ELSE "none"
          [] st.mode = "DRAGGING_NOTES" ->
               IF st.isOverDeleteZone THEN "delete"
               ELSE IF selectedNoteIds # {} /\ (st.dragDelta.x # 0 \/ st.dragDelta.y # 0)
               THEN "move"
               ELSE "none"
          [] st.mode = "NONE" -> session.exit
          [] OTHER -> "none"

\* handleMouseUp: the exit action of the current mode, then the reset.
handleMouseUp(pt, shift) ==
    /\ CASE interactionState.mode = "PANNING" -> UpPanning(pt)
         [] interactionState.mode = "CONNECTING" -> UpConnecting(pt)
         [] interactionState.mode = "SELECTING" -> UpSelecting(shift)
         [] interactionState.mode = "DRAGGING_NOTES" -> UpDragging
         [] OTHER -> UNCHANGED << notes, connections, selectedNoteIds, contextMenu,
                                  past, future, nextNoteId, nextConnId, connectLog >>
    /\ pressCount' = 0
    /\ interactionState' = ResetInteraction(interactionState)
    /\ session' = [NoSession EXCEPT !.exit = ExitAction]
    /\ UNCHANGED << limits, generation, zoomLog >>
    /\ noteTransforms' = IF interactionState.mode = "DRAGGING_NOTES"
                         THEN DragEndTransforms ELSE noteTransforms
    /\ selectionBox' = NoBox
    /\ UNCHANGED << camera, selectedConnectionId, connectionStyle >>

\* The window's mouseup listener.
MouseUp(pt, shift) == handleMouseUp(pt, shift)

\* handleMouseUp calls a callback of its props in the current state:
\* onCanvasContextMenu, onConnect or onCreateAndConnect, onNoteSelect,
\* onDeleteNotes or onNoteMove and then onDragEnd.
InvokesCallback ==
    LET st == interactionState
    IN  CASE st.mode = "PANNING" -> st.dragDistance < ThresholdSq
          [] st.mode = "CONNECTING" ->
               /\ st.connectionStartId # NULL
               /\ st.currentHoveredTargetId # NULL \/ st.dragDistance > ThresholdSq
          [] st.mode = "SELECTING" -> TRUE
          [] st.mode = "DRAGGING_NOTES" -> TRUE
          [] OTHER -> FALSE

\* handleMouseUp when the first callback it calls throws: the exception leaves
\* the handler (there is no try / finally), so nothing after the call runs,
\* the reset included.  The callback has changed nothing.
MouseUpThrowing ==
    /\ InvokesCallback
    /\ pressCount' = 0
    /\ UNCHANGED << notes, connections, camera, selectedNoteIds, selectedConnectionId,
                    connectionStyle, contextMenu, past, future, interactionState,
                    selectionBox, nextNoteId, nextConnId, limits, noteTransforms, generation, session, connectLog,
                    zoomLog >>

\* ------------------------------------------------------ Canvas: mouse move
\* A pan that moves the world under the pointer by the world-space delta.
PannedCameraInWorldUnits(cam, from, to) ==
    [cam EXCEPT !.x = @ + ((to.x - from.x) * ZoomUnit) \div cam.z,
                !.y = @ + ((to.y - from.y) * ZoomUnit) \div cam.z]

\* The PANNING branch's setCamera updater: the offset moves by the screen
\* delta from the last position seen to the current one.
PannedCamera(cam, from, to) ==
    [cam EXCEPT !.x = @ + (to.x - from.x), !.y = @ + (to.y - from.y)]

\* handleMouseMove with a button held: the per-mode update.
MoveUpdate(pt) ==
    LET st0 == interactionState
        st == [st0 EXCEPT !.dragDistance = Max(@, Saturate(DistSq(pt, st0.dragStart)))]
        worldPos == screenToWorld(pt, camera)
    IN  /\ CASE st.mode = "PANNING" ->
               /\ camera' = PannedCamera(camera, st.dragStart, pt)
               /\ [x |-> camera'.x, y |-> camera'.y] \in CamOffsets
               /\ interactionState' = [st EXCEPT !.dragStart = pt]
               /\ UNCHANGED selectionBox
          [] st.mode = "SELECTING" ->
               /\ selectionBox' = [shown |-> TRUE,
                                   x |-> st.selectionStartWorld.x,
                                   y |-> st.selectionStartWorld.y,
                                   w |-> worldPos.x - st.selectionStartWorld.x,
                                   h |-> worldPos.y - st.selectionStartWorld.y]
               /\ interactionState' =
                      [st EXCEPT !.potentialSelectionIds =
                                      BoxHits(notes, st.selectionStartWorld, worldPos)]
               /\ UNCHANGED camera
          [] st.mode = "DRAGGING_NOTES" ->
               /\ interactionState' =
                      [st EXCEPT !.dragDelta =
                                      [x |-> ((pt.x - st.dragStart.x) * ZoomUnit) \div camera.z,
                                       y |-> ((pt.y - st.dragStart.y) * ZoomUnit) \div camera.z],
                                 !.isOverDeleteZone = InDeleteZone(pt)]
               /\ UNCHANGED << camera, selectionBox >>
          [] st.mode = "CONNECTING" ->
               /\ interactionState' =
                      [st EXCEPT !.currentHoveredTargetId =
                                      HoverTarget(notes, st.connectionStartId, worldPos, camera)]
               /\ UNCHANGED << camera, selectionBox >>
        /\ noteTransforms' =
               IF st.mode = "DRAGGING_NOTES"
               THEN TransformsWritten(noteTransforms, selectedNoteIds,
                                      interactionState'.dragDelta)
               ELSE noteTransforms

\* A move that selects the box's candidates as it finds them.
MoveCommitsCandidates ==
    /\ selectedNoteIds' = IF interactionState.mode = "SELECTING"
                          THEN interactionState'.potentialSelectionIds
                          ELSE selectedNoteIds
    /\ UNCHANGED << notes, connections, selectedConnectionId >>

\* What a move with a button held commits: it calls none of onNoteMove,
\* onNoteSelect, onConnect, onDeleteNotes; candidates, drag delta and hover
\* target stay in the interaction state.
MoveCommits == UNCHANGED << notes, connections, selectedNoteIds, selectedConnectionId >>

\* A handleMouseMove that does not look at e.buttons.
MouseMoveIgnoringButtons(pt, shift, buttons) ==
    /\ interactionState.mode # "NONE"
    /\ MoveUpdate(pt)
    /\ MoveCommits
    /\ session' = Moved(pt)
    /\ UNCHANGED << connectionStyle, contextMenu, past, future,
                    nextNoteId, nextConnId, pressCount, limits, generation, zoomLog, connectLog >>

\* handleMouseMove: nothing in NONE; a move that reports no button held
\* runs handleMouseUp instead of the update.
MouseMove(pt, shift, buttons) ==
    /\ interactionState.mode # "NONE"
    /\ IF buttons = 0
       THEN handleMouseUp(pt, shift)
       ELSE /\ MoveUpdate(pt)
            /\ MoveCommits
            /\ session' = Moved(pt)
            /\ UNCHANGED << connectionStyle, contextMenu, past, future,
                            nextNoteId, nextConnId, pressCount, limits, generation, zoomLog, connectLog >>

\* ----------------------------------------------- Canvas: other handlers
\* renderConnection, the path's onClick: select the connection, clear the
\* note selection.  A click follows the mouseup that ended any session.
ConnectionClick(cid) ==
    /\ UNCHANGED << nextNoteId, nextConnId, pressCount, limits, noteTransforms, generation, zoomLog, session, connectLog >>
    /\ interactionState.mode = "NONE"
    /\ \E i \in 1..Len(connections) :
          /\ connections[i].id = cid
          /\ {connections[i].fromId, connections[i].toId} \subseteq Ids(notes)
    /\ selectedConnectionId' = cid
    /\ selectedNoteIds' = {}
    /\ UNCHANGED << notes, connections, camera, connectionStyle, contextMenu, past, future,
                    interactionState, selectionBox >>

\* renderConnection, the label chip's onClick: the chip is rendered for a
\* labelled or a selected connection (labels are not modelled).
LabelClick(cid) ==
    /\ UNCHANGED << nextNoteId, nextConnId, pressCount, limits, noteTransforms, generation, zoomLog, session, connectLog >>
    /\ interactionState.mode = "NONE"
    /\ \E i \in 1..Len(connections) :
          /\ connections[i].id = cid
          /\ {connections[i].fromId, connections[i].toId} \subseteq Ids(notes)
    /\ selectedConnectionId = cid
    /\ selectedConnectionId' = cid
    /\ UNCHANGED << notes, connections, camera, selectedNoteIds, connectionStyle,
                    contextMenu, past, future, interactionState, selectionBox >>

\* The container's onDoubleClick on the canvas itself: saveHistory, createNote.
CanvasDoubleClick(pt) ==
    /\ UNCHANGED << nextConnId, pressCount, limits, noteTransforms, generation, zoomLog, session, connectLog >>
    /\ interactionState.mode = "NONE"
    /\ \A i \in 1..Len(notes) : ~PointInNote(pt, notes[i], camera)
    /\ OnContent(pt, camera)
    /\ HasFreshNoteId
    /\ past' = SavedPast /\ future' = << >>
    /\ notes' = Append(notes, NewNote(FreshNoteId, screenToWorld(pt, camera)))
    /\ nextNoteId' = nextNoteId + 1
    /\ InWorld(notes')
    /\ UNCHANGED << connections, camera, selectedNoteIds, selectedConnectionId,
                    connectionStyle, contextMenu, interactionState, selectionBox >>

\* ------------------------------------------------------- App: keyboard
\* handleKeyDown, Delete / Backspace: the selected notes, else the selected
\* connection.
KeyDelete ==
    /\ UNCHANGED << nextNoteId, nextConnId, pressCount, limits, generation, zoomLog, session, connectLog >>
    /\ selectedNoteIds # {} \/ selectedConnectionId # NULL
    /\ past' = SavedPast /\ future' = << >>
    /\ IF selectedNoteIds # {}
       THEN /\ notes' = DeleteNotesUpdater(notes, selectedNoteIds)
            /\ connections' = DeleteConnsUpdater(connections, selectedNoteIds)
            /\ selectedNoteIds' = {}
            /\ UNCHANGED selectedConnectionId
       ELSE /\ connections' = SelectSeq(connections, LAMBDA c : c.id # selectedConnectionId)
            /\ selectedConnectionId' = NULL
            /\ UNCHANGED << notes, selectedNoteIds >>
    /\ UNCHANGED << camera, connectionStyle, contextMenu, interactionState, selectionBox >>
    /\ noteTransforms' = Mounted(noteTransforms, notes')

\* handleKeyDown, Escape.
KeyEscape ==
    /\ UNCHANGED << nextNoteId, nextConnId, pressCount, limits, noteTransforms, generation, zoomLog, session, connectLog >>
    /\ selectedNoteIds' = {}
    /\ selectedConnectionId' = NULL
    /\ contextMenu' = NoMenu
    /\ UNCHANGED << notes, connections, camera, connectionStyle, past, future,
                    interactionState, selectionBox >>

\* undo.
Undo ==
    /\ UNCHANGED << nextNoteId, nextConnId, pressCount, limits, generation, zoomLog, session, connectLog >>
    /\ Len(past) > 0
    /\ future' = << [notes |-> notes, connections |-> connections] >> \o future
    /\ notes' = past[Len(past)].notes
    /\ connections' = past[Len(past)].connections
    /\ past' = SubSeq(past, 1, Len(past) - 1)
    /\ selectedNoteIds' = {}
    /\ UNCHANGED << camera, selectedConnectionId, connectionStyle, contextMenu,
                    interactionState, selectionBox >>
    /\ noteTransforms' = Mounted(noteTransforms, notes')

\* redo.
Redo ==
    /\ UNCHANGED << nextNoteId, nextConnId, pressCount, limits, generation, zoomLog, session, connectLog >>
    /\ Len(future) > 0
    /\ past' = SavedPast
    /\ notes' = future[1].notes
    /\ connections' = future[1].connections
    /\ future' = Tail(future)
    /\ selectedNoteIds' = {}
    /\ UNCHANGED << camera, selectedConnectionId, connectionStyle, contextMenu,
                    interactionState, selectionBox >>
    /\ noteTransforms' = Mounted(noteTransforms, notes')

\* ------------------------------------------------------------ camera
MinZoom == 100
MaxZoom == 5000
ZoomStep == 100
FitPadding == 100

\* Math.min(Math.max(0.1, z), 5)
ClampZoom(z) == Min(Max(MinZoom, z), MaxZoom)

\* A camera offset that stays where it was when the zoom changes.
AnchorAtOrigin(screen, offset, z, newZoom) == offset

\* handleWheel's newX, newY: screen - mouseWorld * newZoom, where mouseWorld is
\* screenToWorld's (screen - offset) / z.
AnchorOffset(screen, offset, z, newZoom) == screen - ((screen - offset) * newZoom) \div z

\* The product behind AnchorOffset is a whole number of pixels.
WholeAnchor(screen, offset, z, newZoom) == ((screen - offset) * newZoom) % z = 0

\* The camera offsets a run keeps to: at most CameraReach pixels either way.
InReach(cam) == /\ -CameraReach <= cam.x /\ cam.x <= CameraReach
                /\ -CameraReach <= cam.y /\ cam.y <= CameraReach

\* handleWheel: deltaY * zoomSensitivity is deltaY thousandths.  The run keeps
\* to wheel events whose new offset is a whole number of pixels.
handleWheel(pt, deltaY) ==
    LET newZoom == ClampZoom(camera.z - deltaY)
    IN  /\ WholeAnchor(pt.x, camera.x, camera.z, newZoom)
        /\ WholeAnchor(pt.y, camera.y, camera.z, newZoom)
        /\ camera' = [x |-> AnchorOffset(pt.x, camera.x, camera.z, newZoom),
                      y |-> AnchorOffset(pt.y, camera.y, camera.z, newZoom),
                      z |-> newZoom]
        /\ InReach(camera')
        /\ zoomLog.count < limits.zooms
        /\ zoomLog' = [count |-> zoomLog.count + 1, pt |-> pt,
                       clamped |-> newZoom # camera.z - deltaY,
                       zoomed |-> newZoom # camera.z]
        /\ UNCHANGED << notes, connections, selectedNoteIds, selectedConnectionId,
                        connectionStyle, contextMenu, past, future, interactionState,
                        selectionBox, nextNoteId, nextConnId, pressCount, limits, noteTransforms, generation, session,
                        connectLog >>

\* handleZoom: the zoom buttons call it with -0.1 and 0.1.
handleZoom(delta) ==
    /\ zoomLog.count < limits.zooms
    /\ zoomLog' = Zoomed(zoomLog)
    /\ camera' = [camera EXCEPT !.z = ClampZoom(@ + delta)]
    /\ UNCHANGED << notes, connections, selectedNoteIds, selectedConnectionId,
                    connectionStyle, contextMenu, past, future, interactionState,
                    selectionBox, nextNoteId, nextConnId, pressCount, limits, noteTransforms, generation, session,
                    connectLog >>

\* handleFitView's newZoom for a content of contentW by contentH, in
\* thousandths (rounded down): Math.min(innerWidth / contentW,
\* innerHeight / contentH, 1).
FitZoom(contentW, contentH) ==
    Min(Min((Window.innerWidth * ZoomUnit) \div contentW,
            (Window.innerHeight * ZoomUnit) \div contentH), ZoomUnit)

\* handleFitView's camera for the bounds lo..hi of the notes.
FitCamera(lo, hi) ==
    LET newZoom == FitZoom(hi.x - lo.x + FitPadding * 2, hi.y - lo.y + FitPadding * 2)
    IN  [x |-> Window.innerWidth \div 2 - ((lo.x + hi.x) * newZoom) \div (2 * ZoomUnit),
         y |-> Window.innerHeight \div 2 - ((lo.y + hi.y) * newZoom) \div (2 * ZoomUnit),
         z |-> newZoom]

\* The divisions behind FitCamera leave no remainder.
WholeFit(lo, hi) ==
    LET contentW == hi.x - lo.x + FitPadding * 2
        contentH == hi.y - lo.y + FitPadding * 2
        newZoom == FitZoom(contentW, contentH)
    IN  /\ \/ newZoom = ZoomUnit
           \/ newZoom * contentW = Window.innerWidth * ZoomUnit
           \/ newZoom * contentH = Window.innerHeight * ZoomUnit
        /\ ((lo.x + hi.x) * newZoom) % (2 * ZoomUnit) = 0
        /\ ((lo.y + hi.y) * newZoom) % (2 * ZoomUnit) = 0

\* The bounds of the notes of ns: minX, minY and maxX, maxY.
NoteBounds(ns) ==
    [lo |-> [x |-> Least({ ns[i].x : i \in 1..Len(ns) }),
             y |-> Least({ ns[i].y : i \in 1..Len(ns) })],
     hi |-> [x |-> Greatest({ ns[i].x + ns[i].w : i \in 1..Len(ns) }),
             y |-> Greatest({ ns[i].y + ns[i].h : i \in 1..Len(ns) })]]

\* handleFitView.  The run keeps to boards whose fitted camera is a whole number
\* of thousandths and pixels.
handleFitView ==
    /\ zoomLog.count < limits.zooms
    /\ zoomLog' = Zoomed(zoomLog)
    /\ Len(notes) # 0 => WholeFit(NoteBounds(notes).lo, NoteBounds(notes).hi)
    /\ camera' = IF Len(notes) = 0 THEN [x |-> 0, y |-> 0, z |-> ZoomUnit]
                 ELSE FitCamera(NoteBounds(notes).lo, NoteBounds(notes).hi)
    /\ UNCHANGED << notes, connections, selectedNoteIds, selectedConnectionId,
                    connectionStyle, contextMenu, past, future, interactionState,
                    selectionBox, nextNoteId, nextConnId, pressCount, limits, noteTransforms, generation, session,
                    connectLog >>

\* handleContextMenuAction('RESET_VIEW'), from the open context menu.
ResetView ==
    /\ contextMenu # NoMenu
    /\ camera' = [x |-> 0, y |-> 0, z |-> ZoomUnit]
    /\ contextMenu' = NoMenu
    /\ UNCHANGED << notes, connections, selectedNoteIds, selectedConnectionId,
                    connectionStyle, past, future, interactionState, selectionBox,
                    nextNoteId, nextConnId, pressCount, limits, noteTransforms, generation, session, connectLog,
                    zoomLog >>

\* ------------------------------------------------------------------- Spec
\* The inputs a handler does not read are not enumerated: shiftKey matters to
\* a primary press and to a release, menuCloses only while the menu is open.
\* ---------------------------------------------------- App: auto-layout
VERTICAL_LAYER_SPACING == 250
HORIZONTAL_LAYER_SPACING == 400
NODE_GAP == 320
Undefined == -1

\* 1. Build Graph: parents[id], the sources of the connections into id whose
\* two endpoints are notes, in connection order.
parents(ns, conns, id) ==
    LET into == SelectSeq(conns, LAMBDA c : /\ c.fromId \in Ids(ns) /\ c.toId \in Ids(ns)
                                            /\ c.toId = id)
    IN  [ i \in 1..Len(into) |-> into[i].fromId ]

\* A rank two above the highest parent's.
NextRankSkipping(maxParentRank) == maxParentRank + 2

\* ranks[nodeId] = maxParentRank + 1.
NextRank(maxParentRank) == maxParentRank + 1

\* 2. Assign Ranks: getRank, the memoized depth-first recursion.  memo.ranks is
\* the ranks object, memo.order the order in which its keys were inserted.
RECURSIVE getRank(_, _, _, _, _)
RECURSIVE ParentRanks(_, _, _, _, _, _)
RECURSIVE ParentRanksNext(_, _, _, _, _)

\* The end of getRank: after is the outcome of the loop over the parents.
SetRank(nodeId, after) ==
    [rank |-> NextRank(after.rank),
     memo |-> [ranks |-> [after.memo.ranks EXCEPT ![nodeId] = NextRank(after.rank)],
               order |-> Append(after.memo.order, nodeId)]]

getRank(ns, conns, nodeId, visited, memo) ==
    IF memo.ranks[nodeId] # Undefined THEN [rank |-> memo.ranks[nodeId], memo |-> memo]
    ELSE IF nodeId \in visited THEN [rank |-> 0, memo |-> memo]
    ELSE SetRank(nodeId, ParentRanks(ns, conns, parents(ns, conns, nodeId),
                                     visited \cup {nodeId}, memo, -1))

\* A loop step that keeps the rank of the parent visited last.
LastWith(maxParentRank, res) == [rank |-> res.rank, memo |-> res.memo]

\* One parent visited in the parents[nodeId].forEach loop: res is its getRank.
MaxWith(maxParentRank, res) ==
    [rank |-> IF res.rank > maxParentRank THEN res.rank ELSE maxParentRank,
     memo |-> res.memo]

\* The parents[nodeId].forEach loop of getRank over the parents still to visit.
ParentRanks(ns, conns, pids, visited, memo, maxParentRank) ==
    IF pids = << >> THEN [rank |-> maxParentRank, memo |-> memo]
    ELSE ParentRanksNext(ns, conns, Tail(pids), visited,
                         MaxWith(maxParentRank, getRank(ns, conns, Head(pids), visited, memo)))

\* The rest of the loop, acc holding maxParentRank and the memo so far.
ParentRanksNext(ns, conns, pids, visited, acc) ==
    ParentRanks(ns, conns, pids, visited, acc.memo, acc.rank)

\* notes.forEach(n => getRank(n.id, new Set())) from note i on.
RECURSIVE RankAll(_, _, _, _)
RankAll(ns, conns, i, memo) ==
    IF i > Len(ns) THEN memo
    ELSE RankAll(ns, conns, i + 1, getRank(ns, conns, ns[i].id, {}, memo).memo)

Ranked(ns, conns) ==
    RankAll(ns, conns, 1, [ranks |-> [id \in Ids(ns) |-> Undefined], order |-> << >>])

\* Object.entries(ranks): the integer-like key '1' (INITIAL_NOTE's id) first,
\* then the ids Math.random made (taken not to be all digits) as inserted.
Entries(memo) ==
    (IF INITIAL_NOTE.id \in Range(memo.order) THEN << INITIAL_NOTE.id >> ELSE << >>)
        \o SelectSeq(memo.order, LAMBDA id : id # INITIAL_NOTE.id)

\* 3. Group by Rank: layers[r] and maxRank.
Layer(memo, r) == SelectSeq(Entries(memo), LAMBDA id : memo.ranks[id] = r)
MaxRank(memo) ==
    LET seen == { memo.ranks[id] : id \in DOMAIN memo.ranks } \cup {0}
    IN  CHOOSE m \in seen : \A r \in seen : r <= m

\* The sum of newPositions[pid]?.x || 0 over the parents pids.
RECURSIVE ParentXSum(_, _)
ParentXSum(pids, newPositions) ==
    IF pids = << >> THEN 0
    ELSE (IF Head(pids) \in DOMAIN newPositions THEN newPositions[Head(pids)].x ELSE 0)
             + ParentXSum(Tail(pids), newPositions)

\* The sign of the layer sort's comparator on a and b, whose parents are pa and
\* pb: avgPosA - avgPosB is multiplied by both (positive) lengths.
CompareWith(ns, newPositions, a, b, pa, pb) ==
    IF Len(pa) = 0 /\ Len(pb) = 0
    THEN NoteOf(ns, a).x - NoteOf(ns, b).x
    ELSE (IF Len(pa) > 0 THEN ParentXSum(pa, newPositions) ELSE 0) * Max(Len(pb), 1)
           - (IF Len(pb) > 0 THEN ParentXSum(pb, newPositions) ELSE 0) * Max(Len(pa), 1)

LayerCompare(ns, conns, newPositions, a, b) ==
    CompareWith(ns, newPositions, a, b, parents(ns, conns, a), parents(ns, conns, b))

\* Whether the stable sort puts layer[j] before layer[i], given the sign c of
\* the comparator on them.
Before(c, j, i) == c < 0 \/ (c = 0 /\ j < i)

\* nodesInLayer.sort(...): Array.prototype.sort is stable.
SortLayer(ns, conns, newPositions, layer) ==
    [ k \in 1..Len(layer) |->
        layer[CHOOSE i \in 1..Len(layer) :
                 k = 1 + Cardinality({ j \in 1..Len(layer) :
                           j # i /\ Before(LayerCompare(ns, conns, newPositions,
                                                        layer[j], layer[i]), j, i) })] ]

\* A layer whose nodes all get the position of its first node.
LayerStacked(direction, r, idx, len) ==
    IF direction = "horizontal"
    THEN [x |-> r * HORIZONTAL_LAYER_SPACING, y |-> 0 - (len * NODE_GAP) \div 2]
    ELSE [x |-> 0 - (len * NODE_GAP) \div 2, y |-> r * VERTICAL_LAYER_SPACING]

\* The position of the node at index idx (from 0) of a layer of len nodes.
LayerPosition(direction, r, idx, len) ==
    IF direction = "horizontal"
    THEN [x |-> r * HORIZONTAL_LAYER_SPACING, y |-> idx * NODE_GAP - (len * NODE_GAP) \div 2]
    ELSE [x |-> idx * NODE_GAP - (len * NODE_GAP) \div 2, y |-> r * VERTICAL_LAYER_SPACING]

\* newPositions with the nodes of the sorted layer r placed.
PlaceLayer(direction, r, nodesInLayer, newPositions) ==
    [ id \in DOMAIN newPositions \cup Range(nodesInLayer) |->
        IF id \in Range(nodesInLayer)
        THEN LayerPosition(direction, r,
                           (CHOOSE k \in 1..Len(nodesInLayer) : nodesInLayer[k] = id) - 1,
                           Len(nodesInLayer))
        ELSE newPositions[id] ]

\* 4. Assign Coordinates: newPositions after the layers r..maxRank are placed.
RECURSIVE PlaceLayers(_, _, _, _, _, _)
PlaceLayers(ns, conns, memo, direction, r, newPositions) ==
    IF r > MaxRank(memo) THEN newPositions
    ELSE PlaceLayers(ns, conns, memo, direction, r + 1,
                     PlaceLayer(direction, r,
                                SortLayer(ns, conns, newPositions, Layer(memo, r)),
                                newPositions))

NewPositions(ns, conns, direction) ==
    PlaceLayers(ns, conns, Ranked(ns, conns), direction, 0, [ id \in {} |-> 0 ])

\* The sum of a sequence of numbers.
RECURSIVE Sum(_)
Sum(s) == IF s = << >> THEN 0 ELSE Head(s) + Sum(Tail(s))

\* notes.reduce((sum, n) => sum + n.position.x, 0) / notes.length
Mean(total, n) == total \div n

\* The corner of the layout's bounds instead of their centre.
LayoutCorner(lo, hi) == lo

\* (layoutMin + layoutMax) / 2
LayoutCentre(lo, hi) == (lo + hi) \div 2

\* Whether the two divisions behind an offset leave no remainder, so that the
\* offset is a whole number of pixels.
Exact(total, n, lo, hi) == total % n = 0 /\ (lo + hi) % 2 = 0

\* 5. Apply positions: the offset along one axis, vs the new coordinates of the
\* notes and total the sum of their current ones.
Offset(total, n, vs) == Mean(total, n) - LayoutCentre(Least(vs), Greatest(vs))

\* The numbers of the layout as the model holds them.
Layout(ns, newPositions) ==
    [newPositions |-> newPositions,
     exact |-> /\ Exact(Sum([ i \in 1..Len(ns) |-> ns[i].x ]), Len(ns),
                        Least({ newPositions[id].x : id \in DOMAIN newPositions }),
                        Greatest({ newPositions[id].x : id \in DOMAIN newPositions }))
               /\ Exact(Sum([ i \in 1..Len(ns) |-> ns[i].y ]), Len(ns),
                        Least({ newPositions[id].y : id \in DOMAIN newPositions }),
                        Greatest({ newPositions[id].y : id \in DOMAIN newPositions })),
     offsetX |-> Offset(Sum([ i \in 1..Len(ns) |-> ns[i].x ]), Len(ns),
                        { newPositions[id].x : id \in DOMAIN newPositions }),
     offsetY |-> Offset(Sum([ i \in 1..Len(ns) |-> ns[i].y ]), Len(ns),
                        { newPositions[id].y : id \in DOMAIN newPositions })]

\* The notes moved to their new positions, all but the first.
RepositionedButFirst(ns, l) ==
    [ i \in 1..Len(ns) |->
        IF i # 1 /\ ns[i].id \in DOMAIN l.newPositions
        THEN [ns[i] EXCEPT !.x = l.newPositions[ns[i].id].x + l.offsetX,
                           !.y = l.newPositions[ns[i].id].y + l.offsetY]
        ELSE ns[i] ]

\* The notes moved to their new positions.
Repositioned(ns, l) ==
    [ i \in 1..Len(ns) |->
        IF ns[i].id \in DOMAIN l.newPositions
        THEN [ns[i] EXCEPT !.x = l.newPositions[ns[i].id].x + l.offsetX,
                           !.y = l.newPositions[ns[i].id].y + l.offsetY]
        ELSE ns[i] ]

\* A layout that also drops the selection.
ApplyLayoutDeselecting(direction, l) ==
    /\ l.exact
    /\ notes' = Repositioned(notes, l)
    /\ past' = SavedPast /\ future' = << >>
    /\ connectionStyle' = IF direction = "horizontal" THEN "curve" ELSE "step"
    /\ selectedNoteIds' = {} /\ selectedConnectionId' = NULL
    /\ UNCHANGED << connections, camera, contextMenu,
                    interactionState, selectionBox, nextNoteId, nextConnId, pressCount,
                    limits, noteTransforms, generation, zoomLog, session, connectLog >>

\* The body of handleAutoLayout, l the layout of the current board.
ApplyLayout(direction, l) ==
    /\ l.exact
    /\ notes' = Repositioned(notes, l)
    /\ past' = SavedPast /\ future' = << >>
    /\ connectionStyle' = IF direction = "horizontal" THEN "curve" ELSE "step"
    /\ UNCHANGED << connections, camera, selectedNoteIds, selectedConnectionId, contextMenu,
                    interactionState, selectionBox, nextNoteId, nextConnId, pressCount,
                    limits, noteTransforms, generation, zoomLog, session, connectLog >>

\* handleAutoLayout.  The run lays out while the undo stack has room for the
\* snapshot, and only boards whose offset is a whole number of pixels.
handleAutoLayout(direction) ==
    /\ Len(notes) # 0
    /\ Len(past) < limits.hist
    /\ ApplyLayout(direction, Layout(notes, NewPositions(notes, connections, direction)))

\* A handleConnect call on two distinct notes outside a pointer session.
Connect(sourceId, targetId) ==
    /\ sourceId # targetId
    /\ sourceId \in Ids(notes) /\ targetId \in Ids(notes)
    /\ handleConnect(sourceId, targetId)
    /\ UNCHANGED << notes, camera, selectedNoteIds, selectedConnectionId, connectionStyle,
                    contextMenu, interactionState, selectionBox, nextNoteId, pressCount,
                    limits, noteTransforms, generation, zoomLog, session >>

ShiftKeys(button) == IF button = 0 THEN BOOLEAN ELSE {FALSE}
MenuCloses == IF contextMenu = NoMenu THEN {TRUE} ELSE BOOLEAN

PointerSteps ==
    \/ \E pt \in Points, b \in Buttons :
           \E shift \in ShiftKeys(b) : CanvasMouseDown(pt, b, shift)
    \/ \E id \in NoteIds, pt \in Points, b \in Buttons, menuCloses \in MenuCloses :
           \E shift \in ShiftKeys(b) : NoteMouseDown(id, pt, b, shift, menuCloses)
    \/ \E pt \in Points, shift \in BOOLEAN : MouseUp(pt, shift)
    \/ \E pt \in Points, shift \in BOOLEAN, buttons \in ButtonMasks :
           MouseMove(pt, shift, buttons)

Next ==
    \/ PointerSteps
    \/ \E cid \in ConnIds : ConnectionClick(cid)
    \/ \E cid \in ConnIds : LabelClick(cid)
    \/ \E pt \in Points : CanvasDoubleClick(pt)
    \/ KeyDelete
    \/ KeyEscape

Spec == Init /\ [][Next]_vars

\* Undo and redo, one snapshot deep, over gestures with the primary and the
\* secondary button (no pan, no double-click).
InitHistory == InitWith(Gestures(MaxHist, 1))

NextHistory ==
    \/ \E pt \in Points, shift \in BOOLEAN : CanvasMouseDown(pt, 0, shift)
    \/ \E id \in NoteIds, pt \in Points, b \in {0, 2} :
           \E shift \in ShiftKeys(b) : NoteMouseDown(id, pt, b, shift, TRUE)
    \/ \E pt \in Points, shift \in BOOLEAN : MouseUp(pt, shift)
    \/ \E pt \in Points : MouseMove(pt, FALSE, 1)
    \/ KeyDelete
    \/ KeyEscape
    \/ Undo
    \/ Redo

SpecHistory == InitHistory /\ [][NextHistory]_vars

\* A second press before the release (another button, or a press after a lost
\* mouseup), without undo and without panning.
InitPress == InitWith(Gestures(0, MaxPresses))

NextPress ==
    \/ \E pt \in Points, b \in {0, 1} :
           \E shift \in ShiftKeys(b) : CanvasMouseDown(pt, b, shift)
    \/ \E id \in NoteIds, pt \in Points, b \in Buttons :
           \E shift \in ShiftKeys(b) : NoteMouseDown(id, pt, b, shift, TRUE)
    \/ \E pt \in Points, shift \in BOOLEAN : MouseUp(pt, shift)
    \/ \E pt \in Points, buttons \in ButtonMasks : MouseMove(pt, FALSE, buttons)
    \/ KeyDelete
    \/ KeyEscape

SpecPress == InitPress /\ [][NextPress]_vars

\* Connect gestures: sessions the secondary button opens on a note, with the
\* keyboard's Delete and Escape and the double-click that makes a note.
InitLink ==
    InitWith([Gestures(0, 1) EXCEPT !.notes = MaxBoardNotes, !.conns = MaxBoardConns])

\* A move finds the pointer at one of Points or 5 or 6 pixels right of the
\* first.
LinkPoints == Points \cup { [x |-> 205, y |-> 200], [x |-> 206, y |-> 200] }

NextLink ==
    \/ \E id \in 1..MaxBoardNotes, pt \in Points, menuCloses \in MenuCloses :
           NoteMouseDown(id, pt, 2, FALSE, menuCloses)
    \/ \E pt \in Points, shift \in BOOLEAN : MouseUp(pt, shift)
    \/ \E pt \in LinkPoints, buttons \in ButtonMasks : MouseMove(pt, FALSE, buttons)
    \/ \E pt \in Points : CanvasDoubleClick(pt)
    \/ KeyDelete
    \/ KeyEscape

SpecLink == InitLink /\ [][NextLink]_vars

\* Connect gestures with a further press: while the secondary button holds a
\* CONNECTING session open on the note, the auxiliary button is pressed too,
\* on the note or on the empty canvas.  The pointer stays within 5 pixels of
\* the first press or goes far to the right.
RepressPoints ==
    { [x |-> 199, y |-> 200], [x |-> 200, y |-> 200], [x |-> 205, y |-> 200],
      [x |-> 700, y |-> 200] }

InitRepress == InitWith([Gestures(0, MaxPresses) EXCEPT !.notes = 2, !.conns = 1])

NextRepress ==
    \/ \E pt \in RepressPoints, b \in {1, 2} : NoteMouseDown(1, pt, b, FALSE, TRUE)
    \/ \E pt \in RepressPoints : CanvasMouseDown(pt, 1, FALSE)
    \/ \E pt \in RepressPoints : MouseUp(pt, FALSE)
    \/ \E pt \in RepressPoints : MouseMove(pt, FALSE, 1)

SpecRepress == InitRepress /\ [][NextRepress]_vars

\* Pans with a pointer that moves a few pixels at a time, on empty canvas.
PanPoints == { [x |-> 700 + d, y |-> 200] : d \in {0, 3, 5, 6} }

InitPan == InitWith(Gestures(0, 1))

NextPan ==
    \/ \E pt \in PanPoints : CanvasMouseDown(pt, 2, FALSE)
    \/ \E pt \in PanPoints, buttons \in ButtonMasks : MouseMove(pt, FALSE, buttons)
    \/ \E pt \in PanPoints : MouseUp(pt, FALSE)

SpecPan == InitPan /\ [][NextPan]_vars

\* Gestures in all four modes, one press per session, no key held: presses of
\* the primary and the secondary button on the canvas and on notes, moves
\* with the button held, releases.
InitMoves == InitWith(Gestures(0, 1))

NextMoves ==
    \/ \E pt \in Points, b \in {0, 2} : CanvasMouseDown(pt, b, FALSE)
    \/ \E id \in NoteIds, pt \in Points, b \in {0, 2} : NoteMouseDown(id, pt, b, FALSE, TRUE)
    \/ \E pt \in Points : MouseMove(pt, FALSE, 1)
    \/ \E pt \in Points : MouseUp(pt, FALSE)

SpecMoves == InitMoves /\ [][NextMoves]_vars

\* Connect gestures over a row of three notes, the second and the third one
\* NoteW + 20 apart, with the zoom buttons pressed before and between them.
\* The pointer is seen on each note, between the second and the third note
\* (nearer to the second, as near to both, nearer to the third) and far from
\* all.
HoverBoard ==
    << INITIAL_NOTE, NewNote(2, [x |-> 400, y |-> 100]), NewNote(3, [x |-> 700, y |-> 100]) >>

HoverPoints ==
    { [x |-> v, y |-> 160] : v \in {200, 500, 552, 690, 692, 800} }
        \cup { [x |-> 1100, y |-> 700] }

InitHover ==
    InitBoard([Gestures(0, 1) EXCEPT !.notes = 3, !.conns = 1, !.zooms = MaxZooms],
              HoverBoard, << >>)

NextHover ==
    \/ \E delta \in {-ZoomStep, ZoomStep} : handleZoom(delta)
    \/ \E id \in 1..3, pt \in HoverPoints : NoteMouseDown(id, pt, 2, FALSE, TRUE)
    \/ \E pt \in HoverPoints : MouseMove(pt, FALSE, 1)
    \/ \E pt \in HoverPoints : MouseUp(pt, FALSE)

SpecHover == InitHover /\ [][NextHover]_vars

\* The same pans with the zoom buttons pressed before and between them.
InitZoomPan == InitWith([Gestures(0, 1) EXCEPT !.zooms = MaxZooms])

NextZoomPan ==
    \/ \E delta \in {-ZoomStep, ZoomStep} : handleZoom(delta)
    \/ \E pt \in PanPoints : CanvasMouseDown(pt, 2, FALSE)
    \/ \E pt \in PanPoints : MouseMove(pt, FALSE, 1)
    \/ \E pt \in PanPoints : MouseUp(pt, FALSE)

SpecZoomPan == InitZoomPan /\ [][NextZoomPan]_vars

\* Collaborators that may throw: handleMouseUp's callbacks are props of the
\* Canvas.  One note, no creation.
InitThrow == InitWith([Gestures(0, 1) EXCEPT !.notes = 1, !.conns = 0])

NextThrow ==
    \/ \E pt \in Points, b \in {0, 2} :
           \E shift \in ShiftKeys(b) : CanvasMouseDown(pt, b, shift)
    \/ \E id \in NoteIds, pt \in Points, b \in {0, 2} :
           \E shift \in ShiftKeys(b) : NoteMouseDown(id, pt, b, shift, TRUE)
    \/ \E pt \in Points, shift \in BOOLEAN : MouseUp(pt, shift)
    \/ \E pt \in Points : MouseMove(pt, FALSE, 1)
    \/ MouseUpThrowing

SpecThrow == InitThrow /\ [][NextThrow]_vars

\* Sessions whose mouseup is lost (the button is released outside the window):
\* the next move reports no button held.
InitLostUp == InitWith(Gestures(0, 1))

NextLostUp ==
    \/ \E pt \in Points, b \in {0, 2} :
           \E shift \in ShiftKeys(b) : CanvasMouseDown(pt, b, shift)
    \/ \E id \in NoteIds, pt \in Points, b \in {0, 2} :
           \E shift \in ShiftKeys(b) : NoteMouseDown(id, pt, b, shift, TRUE)
    \/ \E pt \in Points, shift \in BOOLEAN, buttons \in ButtonMasks :
           MouseMove(pt, shift, buttons)
    \/ KeyDelete

SpecLostUp == InitLostUp /\ [][NextLostUp]_vars

\* ---------------------------------------- App: text generation (toolbar)
\* The App with the toolbar: handleBrainstorm and handleSummarize await the
\* service; the handler up to its await is one action, the continuation after
\* it (the service resolved or rejected) another.  The note's content is not
\* modelled, so a summary leaves the notes as they are.

\* The toolbar is rendered: no drag hides it and a selected note exists.
ToolbarShown ==
    /\ interactionState.mode # "DRAGGING_NOTES"
    /\ selectedNoteIds \cap Ids(notes) # {}

\* A toolbar whose generation buttons are never disabled.
NeverDisabled == FALSE

\* disabled={isBrainstorming} on the Brainstorm and the Summarize button.
ButtonDisabled == generation.isBrainstorming

\* The closure of a request in flight: what the handler holds across its await.
Request(kind, sourceNote, placeholderIds) ==
    [req |-> generation.started + 1, kind |-> kind, sourceNote |-> sourceNote,
     placeholderIds |-> placeholderIds]

\* A click on an enabled generation button with one note selected: the
\* handler up to its await.
StartRequest(kind) ==
    /\ ToolbarShown /\ ~ButtonDisabled
    /\ generation.started < limits.reqs
    /\ Cardinality(selectedNoteIds) = 1
    /\ past' = SavedPast /\ future' = << >>
    /\ generation' =
           [generation EXCEPT
               !.isBrainstorming = TRUE,
               !.started = @ + 1,
               !.inFlight = @ \cup { Request(kind,
                                             NoteOf(notes, CHOOSE id \in selectedNoteIds : TRUE),
                                             << >>) }]
    /\ UNCHANGED << notes, connections, camera, selectedNoteIds, selectedConnectionId,
                    connectionStyle, contextMenu, interactionState, selectionBox, nextNoteId,
                    nextConnId, pressCount, limits, noteTransforms, zoomLog, session, connectLog >>

handleBrainstorm == StartRequest("brainstorm")
handleSummarize == StartRequest("summarize")

\* The vertical distance between the notes of the ideas.
IdeaSpacingY == 180
IdeaGapX == 100

\* The note of idea index (from 0) of n results for sourceNote.
IdeaNote(id, sourceNote, n, index) ==
    NewNote(id, [x |-> sourceNote.x + sourceNote.w + IdeaGapX,
                 y |-> sourceNote.y - ((n - 1) * IdeaSpacingY) \div 2 + index * IdeaSpacingY])

\* A handler with no finally: the flag stays set when the request is over.
FinishedStillBusy(r, errorMsg) ==
    [generation EXCEPT !.inFlight = @ \ {r}, !.errorMsg = errorMsg]

\* The request r is over: finally { setIsBrainstorming(false) }.
Finished(r, errorMsg) ==
    [generation EXCEPT !.isBrainstorming = FALSE, !.inFlight = @ \ {r},
                       !.errorMsg = errorMsg]

\* handleBrainstorm after its await, the service having returned n ideas:
\* createNote(newPos, idea.content, sourceNote.id) for each.
BrainstormResolved(r, n) ==
    /\ r \in generation.inFlight /\ r.kind = "brainstorm"
    /\ nextNoteId + n - 1 <= limits.notes /\ nextConnId + n - 1 <= limits.conns
    /\ notes' = notes \o [ i \in 1..n |-> IdeaNote(nextNoteId + i - 1, r.sourceNote, n, i - 1) ]
    /\ connections' = connections \o
           [ i \in 1..n |-> [id |-> nextConnId + i - 1, fromId |-> r.sourceNote.id,
                             toId |-> nextNoteId + i - 1] ]
    /\ nextNoteId' = nextNoteId + n
    /\ nextConnId' = nextConnId + n
    /\ generation' = Finished(r, generation.errorMsg)
    /\ UNCHANGED << camera, selectedNoteIds, selectedConnectionId, connectionStyle,
                    contextMenu, past, future, interactionState, selectionBox, pressCount,
                    limits, noteTransforms, zoomLog, session, connectLog >>

\* handleSummarize after its await: handleNoteUpdate appends the summary to
\* the content.
SummarizeResolved(r) ==
    /\ r \in generation.inFlight /\ r.kind = "summarize"
    /\ generation' = Finished(r, generation.errorMsg)
    /\ UNCHANGED << notes, connections, camera, selectedNoteIds, selectedConnectionId,
                    connectionStyle, contextMenu, past, future, interactionState,
                    selectionBox, nextNoteId, nextConnId, pressCount, limits, noteTransforms, zoomLog,
                    session, connectLog >>

\* The catch of either handler: the service rejected.
RequestRejected(r) ==
    /\ r \in generation.inFlight /\ r.kind \in {"brainstorm", "summarize"}
    /\ generation' = Finished(r, IF r.kind = "brainstorm" THEN "Failed to generate ideas."
                                 ELSE "Failed to summarize.")
    /\ UNCHANGED << notes, connections, camera, selectedNoteIds, selectedConnectionId,
                    connectionStyle, contextMenu, past, future, interactionState,
                    selectionBox, nextNoteId, nextConnId, pressCount, limits, noteTransforms, zoomLog,
                    session, connectLog >>

\* setTimeout(() => setErrorMsg(null), 3000), or the notice's close button.
ClearError ==
    /\ generation.errorMsg # ""
    /\ generation' = [generation EXCEPT !.errorMsg = ""]
    /\ UNCHANGED << notes, connections, camera, selectedNoteIds, selectedConnectionId,
                    connectionStyle, contextMenu, past, future, interactionState,
                    selectionBox, nextNoteId, nextConnId, pressCount, limits, noteTransforms, zoomLog,
                    session, connectLog >>

\* ----------------------------------- App: text generation (placeholders)
\* The App whose notes carry an AI button: handleAIBrainstorm puts three
\* placeholder notes on the board before its await and patches or removes them
\* after it.  This App keeps no undo stack and has no toolbar.

\* Ids are numbers in the model: 'ai-pending-<Date.now()>-<i>' is
\* PendingBase + 3 * t + i for the t-th request, 'note-<Date.now()>-<i>' the
\* same above RenamedBase; Math.random ids stay below PendingBase.
PendingBase == 100
RenamedBase == 200
PendingId(t, i) == PendingBase + 3 * t + i

\* The id starts with 'ai-pending-': the note shows the spinner.
IsPending(id) == PendingBase <= id /\ id < RenamedBase

\* id.replace('ai-pending-', 'note-')
Renamed(id) == IF IsPending(id) THEN id - PendingBase + RenamedBase ELSE id

\* distance * cos(angle) and distance * sin(angle) * 1.5 for the angles
\* -pi/4, 0, pi/4 and the distance 400, rounded to whole pixels.
PlaceholderSpread ==
    << [x |-> 283, y |-> -424], [x |-> 400, y |-> 0], [x |-> 283, y |-> 424] >>
PlaceholderGap == 50

\* newNotesData: the three 'Thinking...' notes of the t-th request.
Placeholders(sourceNote, t) ==
    [ i \in 1..3 |->
        NewNote(PendingId(t, i - 1),
                [x |-> sourceNote.x + PlaceholderSpread[i].x + sourceNote.w + PlaceholderGap,
                 y |-> sourceNote.y + PlaceholderSpread[i].y]) ]

\* handleAIBrainstorm up to its await, for a source note with some text.
handleAIBrainstorm(sourceId) ==
    LET sourceNote == NoteOf(notes, sourceId)
        t == generation.started + 1
        newNotesData == Placeholders(sourceNote, t)
    IN  /\ sourceId \in Ids(notes)
        /\ generation.started < limits.reqs
        /\ nextConnId + 2 <= limits.conns
        /\ notes' = notes \o newNotesData
        /\ connections' = connections \o
               [ i \in 1..3 |-> [id |-> nextConnId + i - 1, fromId |-> sourceId,
                                 toId |-> newNotesData[i].id] ]
        /\ nextConnId' = nextConnId + 3
        /\ generation' =
               [generation EXCEPT
                   !.started = @ + 1,
                   !.inFlight = @ \cup { Request("aiBrainstorm", sourceNote,
                                                 [ i \in 1..3 |-> newNotesData[i].id ]) }]
        /\ UNCHANGED << camera, selectedNoteIds, selectedConnectionId, connectionStyle,
                        contextMenu, past, future, interactionState, selectionBox,
                        nextNoteId, pressCount, limits, noteTransforms, zoomLog, session, connectLog >>

\* handleAIBrainstorm on a note that is gone or has no text: the notice only.
AIBrainstormRefused ==
    /\ generation.errorMsg # "Please add some text to the note first."
    /\ generation' = [generation EXCEPT !.errorMsg = "Please add some text to the note first."]
    /\ UNCHANGED << notes, connections, camera, selectedNoteIds, selectedConnectionId,
                    connectionStyle, contextMenu, past, future, interactionState,
                    selectionBox, nextNoteId, nextConnId, pressCount, limits, noteTransforms, zoomLog,
                    session, connectLog >>

\* How many of the notes ns[1..i] carry one of the ids.
RECURSIVE CountIn(_, _, _)
CountIn(ns, ids, i) ==
    IF i = 0 THEN 0 ELSE CountIn(ns, ids, i - 1) + (IF ns[i].id \in ids THEN 1 ELSE 0)

\* 3. Update placeholders with real content: the first setNotes gives every
\* placeholder a Math.random id, whether or not an idea came for it.
PatchedNotes(prev, placeholderIds) ==
    [ i \in 1..Len(prev) |->
        IF prev[i].id \in placeholderIds
        THEN [prev[i] EXCEPT !.id = nextNoteId + CountIn(prev, placeholderIds, i) - 1]
        ELSE prev[i] ]

\* The second setNotes: the notes that still carry a placeholder id lose the
\* 'ai-pending-' prefix.
UnmarkedNotes(prev, placeholderIds) ==
    [ i \in 1..Len(prev) |->
        IF prev[i].id \in placeholderIds THEN [prev[i] EXCEPT !.id = Renamed(@)]
        ELSE prev[i] ]

\* setConnections: the connections to a placeholder follow the renaming.
RetargetedConns(prev, placeholderIds) ==
    [ i \in 1..Len(prev) |->
        IF prev[i].toId \in placeholderIds THEN [prev[i] EXCEPT !.toId = Renamed(@)]
        ELSE prev[i] ]

\* handleAIBrainstorm after its await, the service having resolved.
AIBrainstormResolved(r) ==
    /\ r \in generation.inFlight /\ r.kind = "aiBrainstorm"
    /\ nextNoteId + CountIn(notes, Range(r.placeholderIds), Len(notes)) - 1 <= limits.notes
    /\ notes' = UnmarkedNotes(PatchedNotes(notes, Range(r.placeholderIds)),
                              Range(r.placeholderIds))
    /\ nextNoteId' = nextNoteId + CountIn(notes, Range(r.placeholderIds), Len(notes))
    /\ connections' = RetargetedConns(connections, Range(r.placeholderIds))
    /\ generation' = [generation EXCEPT !.inFlight = @ \ {r}]
    /\ noteTransforms' = Mounted(noteTransforms, notes')
    /\ UNCHANGED << camera, selectedNoteIds, selectedConnectionId, connectionStyle,
                    contextMenu, past, future, interactionState, selectionBox, nextConnId,
                    pressCount, limits, zoomLog, session, connectLog >>

\* The catch of handleAIBrainstorm: remove placeholders on error.
PendingNotesRemoved(prev, placeholderIds) ==
    SelectSeq(prev, LAMBDA n : n.id \notin placeholderIds)

PendingConnsRemoved(prev, placeholderIds) ==
    SelectSeq(prev, LAMBDA c : c.toId \notin placeholderIds)

AIBrainstormRejected(r) ==
    /\ r \in generation.inFlight /\ r.kind = "aiBrainstorm"
    /\ notes' = PendingNotesRemoved(notes, Range(r.placeholderIds))
    /\ connections' = PendingConnsRemoved(connections, Range(r.placeholderIds))
    /\ generation' = [generation EXCEPT !.inFlight = @ \ {r},
                                        !.errorMsg = "AI generation failed. Check API Key."]
    /\ noteTransforms' = Mounted(noteTransforms, notes')
    /\ UNCHANGED << camera, selectedNoteIds, selectedConnectionId, connectionStyle,
                    contextMenu, past, future, interactionState, selectionBox, nextNoteId,
                    nextConnId, pressCount, limits, zoomLog, session, connectLog >>


\* ------------------------------------------------------------- boards
\* Where the notes of a board stand: two spots whose coordinates every note
\* count up to six divides.
Spots == { [x |-> 0, y |-> 0], [x |-> 120, y |-> 360] }

\* The boards of n notes: INITIAL_NOTE and the notes createNote made, each
\* dragged to a spot.
NotesOfBoards(n) ==
    { [ i \in 1..n |-> LET at == [NewNote(i, spot[i]) EXCEPT !.w = NoteW]
                        IN  IF i = INITIAL_NOTE.id
                            THEN [at EXCEPT !.w = INITIAL_NOTE.w, !.h = INITIAL_NOTE.h]
                            ELSE at ] : spot \in [1..n -> Spots] }

\* The connection lists of k connections a board of n notes can hold: no
\* self-loop, no two connections on one pair of notes.
ConnsOfBoards(n, k) ==
    LET Pairs == { p \in (1..n) \X (1..n) : p[1] # p[2] }
        lists == { f \in [1..k -> Pairs] :
                     \A i \in 1..k, j \in 1..k :
                        i < j => {f[i][1], f[i][2]} # {f[j][1], f[j][2]} }
    IN  { [ i \in 1..k |-> [id |-> i, fromId |-> f[i][1], toId |-> f[i][2]] ] : f \in lists }

\* handleConnect calls on a board of MaxBoardNotes notes with no connection.
InitConnect ==
    \E ns \in NotesOfBoards(MaxBoardNotes) :
        InitBoard([hist |-> MaxHist, presses |-> 1, notes |-> MaxBoardNotes,
                   conns |-> MaxConnects, log |-> MaxLogged, zooms |-> 0, reqs |-> 0, dom |-> 0, app |-> "toolbar"], ns, << >>)
NextConnect == \E a \in 1..MaxBoardNotes, b \in 1..MaxBoardNotes : Connect(a, b)
SpecConnect == InitConnect /\ [][NextConnect]_vars

\* Auto-layout of the boards of up to MaxBoardNotes notes and MaxBoardConns
\* connections.
InitLayout ==
    \E n \in 1..MaxBoardNotes, k \in 0..MaxBoardConns :
        \E ns \in NotesOfBoards(n), conns \in ConnsOfBoards(n, k) :
            InitBoard([hist |-> MaxHist, presses |-> 1, notes |-> MaxBoardNotes,
                       conns |-> MaxBoardConns, log |-> 0, zooms |-> 0, reqs |-> 0, dom |-> 0, app |-> "toolbar"], ns, conns)
NextLayout == \E direction \in {"horizontal", "vertical"} : handleAutoLayout(direction)
SpecLayout == InitLayout /\ [][NextLayout]_vars

\* Auto-layout of the boards a user can have built with the pointer: next to
\* the connections between two notes there may be a connection of a note to
\* itself (a connect gesture released on a stale hover target) and one from a
\* note that is gone (createNote for a source deleted during the gesture).
\* conns with a self-loop on the note s and a connection from the deleted
\* note gone to the note t; 0 for s or t leaves that connection out.
WithStrays(conns, s, gone, t) ==
    LET loop == IF s = 0 THEN << >>
                ELSE << [id |-> Len(conns) + 1, fromId |-> s, toId |-> s] >>
        stray == IF t = 0 THEN << >>
                 ELSE << [id |-> Len(conns) + Len(loop) + 1, fromId |-> gone, toId |-> t] >>
    IN  conns \o loop \o stray

InitAnyLayout ==
    \E n \in 1..MaxBoardNotes, k \in 0..MaxBoardConns :
        \E ns \in NotesOfBoards(n), conns \in ConnsOfBoards(n, k), s \in 0..n, t \in 0..n :
            InitBoard([hist |-> MaxHist, presses |-> 1, notes |-> MaxBoardNotes,
                       conns |-> MaxBoardConns + 2, log |-> 0, zooms |-> 0, reqs |-> 0, dom |-> 0, app |-> "toolbar"],
                      ns, WithStrays(conns, s, n + 1, t))
SpecAnyLayout == InitAnyLayout /\ [][NextLayout]_vars

\* Auto-layout between box selections, pans, clicks on the connection and
\* deletions, on boards of two notes with at most one connection.  The
\* pointer is seen on the first spot of the board and at two points of the
\* empty canvas.
FramePoints == { [x |-> 130, y |-> 100], [x |-> 200, y |-> 200], [x |-> 700, y |-> 200] }

InitFrame ==
    \E ns \in NotesOfBoards(2), conns \in ConnsOfBoards(2, 1) \cup { << >> } :
        InitBoard([Gestures(MaxHist + 1, 1) EXCEPT !.conns = 1], ns, conns)

NextFrame ==
    \/ \E direction \in {"horizontal", "vertical"} : handleAutoLayout(direction)
    \/ \E pt \in FramePoints, b \in {0, 2} : CanvasMouseDown(pt, b, FALSE)
    \/ \E pt \in FramePoints : MouseMove(pt, FALSE, 1)
    \/ \E pt \in FramePoints : MouseUp(pt, FALSE)
    \/ ConnectionClick(1)
    \/ KeyDelete

SpecFrame == InitFrame /\ [][NextFrame]_vars

\* Drags of the one note with the notes' elements watched: the keyboard
\* (Escape, Delete, undo, redo) and the auxiliary button act while the
\* primary button holds the session open.
InitResidue ==
    InitWith([Gestures(MaxHist, MaxPresses) EXCEPT !.notes = 1, !.conns = 0, !.dom = 1])

NextResidue ==
    \/ \E pt \in Points, b \in {0, 1} : NoteMouseDown(1, pt, b, FALSE, TRUE)
    \/ \E pt \in Points : CanvasMouseDown(pt, 1, FALSE)
    \/ \E pt \in Points : MouseMove(pt, FALSE, 1)
    \/ \E pt \in Points : MouseUp(pt, FALSE)
    \/ KeyEscape
    \/ KeyDelete
    \/ Undo
    \/ Redo

SpecResidue == InitResidue /\ [][NextResidue]_vars

\* ------------------------------------------------------- generation runs
\* The toolbar App: the user selects a note with a click, makes a note with a
\* double click, deletes the selection, and asks for ideas or a summary; the
\* service answers when it likes.
InitToolbar ==
    InitWith([Gestures(0, 1) EXCEPT !.notes = 1 + MaxRequests * MaxIdeas,
                                    !.conns = MaxRequests * MaxIdeas,
                                    !.reqs = MaxRequests])

NextToolbar ==
    \/ \E id \in 1..(1 + MaxRequests * MaxIdeas), pt \in Points :
           NoteMouseDown(id, pt, 0, FALSE, TRUE)
    \/ \E pt \in Points : MouseUp(pt, FALSE)
    \/ KeyDelete
    \/ handleBrainstorm
    \/ handleSummarize
    \/ \E r \in generation.inFlight, n \in 0..MaxIdeas : BrainstormResolved(r, n)
    \/ \E r \in generation.inFlight : SummarizeResolved(r)
    \/ \E r \in generation.inFlight : RequestRejected(r)
    \/ ClearError

SpecToolbar == InitToolbar /\ [][NextToolbar]_vars

\* The placeholder App: the user asks for ideas on any note, the asked note's
\* text may be blank, and connects a placeholder with another note while the
\* service is awaited.
InitPlaceholders ==
    InitWith([Gestures(0, 1) EXCEPT !.notes = 1 + 3 * MaxRequests,
                                    !.conns = 3 * MaxRequests + 1,
                                    !.reqs = MaxRequests,
                                    !.app = "placeholders"])

NextPlaceholders ==
    \/ \E sourceId \in Ids(notes) : handleAIBrainstorm(sourceId)
    \/ AIBrainstormRefused
    \/ \E r \in generation.inFlight : AIBrainstormResolved(r)
    \/ \E r \in generation.inFlight : AIBrainstormRejected(r)
    \/ \E a \in Ids(notes), b \in Ids(notes) :
           (IsPending(a) \/ IsPending(b)) /\ Connect(a, b)

SpecPlaceholders == InitPlaceholders /\ [][NextPlaceholders]_vars

\* Either App with a service that answers: every request that awaits the
\* service is resolved or rejected in the end (the promise settles), whatever
\* the user does meanwhile.
InitSettles == InitToolbar \/ InitPlaceholders

\* The continuation of the t-th request runs: try, catch and finally.
Settles(t) ==
    \E r \in generation.inFlight :
        /\ r.req = t
        /\ \/ \E n \in 0..MaxIdeas : BrainstormResolved(r, n)
           \/ SummarizeResolved(r)
           \/ RequestRejected(r)
           \/ AIBrainstormResolved(r)
           \/ AIBrainstormRejected(r)

NextSettles ==
    \/ \E id \in 1..(1 + MaxRequests * MaxIdeas), pt \in Points :
           limits.app = "toolbar" /\ NoteMouseDown(id, pt, 0, FALSE, TRUE)
    \/ \E pt \in Points : limits.app = "toolbar" /\ MouseUp(pt, FALSE)
    \/ limits.app = "toolbar" /\ KeyDelete
    \/ limits.app = "toolbar" /\ handleBrainstorm
    \/ limits.app = "toolbar" /\ handleSummarize
    \/ limits.app = "toolbar" /\ ClearError
    \/ \E sourceId \in Ids(notes) :
           limits.app = "placeholders" /\ handleAIBrainstorm(sourceId)
    \/ limits.app = "placeholders" /\ AIBrainstormRefused
    \/ \E r \in generation.inFlight, n \in 0..MaxIdeas : BrainstormResolved(r, n)
    \/ \E r \in generation.inFlight : SummarizeResolved(r)
    \/ \E r \in generation.inFlight : RequestRejected(r)
    \/ \E r \in generation.inFlight : AIBrainstormResolved(r)
    \/ \E r \in generation.inFlight : AIBrainstormRejected(r)

SpecSettles ==
    /\ InitSettles /\ [][NextSettles]_vars
    /\ \A t \in 1..MaxRequests : WF_vars(Settles(t))

\* ------------------------------------------------------------- camera runs
\* WheelEvent.deltaY of the wheel events of a run.
WheelDeltas == {-3000, 3000}

\* Boards whose fit-to-view camera is a whole number of pixels and thousandths:
\* the initial board, and two notes the user has dragged apart.
WideSpots == { [x |-> 1920, y |-> 0], [x |-> 23520, y |-> 0] }
CameraBoards ==
    { << INITIAL_NOTE >> }
        \cup { << [INITIAL_NOTE EXCEPT !.x = 0, !.y = 0], NewNote(2, spot) >> : spot \in WideSpots }

\* Wheel zooms, zoom buttons, fit-to-view, view resets and pans.
InitCamera ==
    \E ns \in CameraBoards :
        InitBoard([Gestures(0, 1) EXCEPT !.zooms = MaxZooms], ns, << >>)

NextCamera ==
    \/ \E pt \in Points, deltaY \in WheelDeltas : handleWheel(pt, deltaY)
    \/ \E delta \in {-ZoomStep, ZoomStep} : handleZoom(delta)
    \/ handleFitView
    \/ ResetView
    \/ \E pt \in Points : CanvasMouseDown(pt, 2, FALSE)
    \/ \E pt \in Points : MouseMove(pt, FALSE, 1)
    \/ \E pt \in Points : MouseUp(pt, FALSE)

SpecCamera == InitCamera /\ [][NextCamera]_vars

\* =================================================================== claims
\* The connections of conns that join a and b, in either direction.
Between(conns, a, b) ==
    { i \in 1..Len(conns) : \/ conns[i].fromId = a /\ conns[i].toId = b
                            \/ conns[i].fromId = b /\ conns[i].toId = a }

\* C1: in every reachable state, whatever connect gestures, create-and-connect,
\* creations, deletions, undos and redos led to it, every pair of distinct
\* notes is joined by at most one connection, both directions counted.
C1_AtMostOneEdge ==
    \A a \in NoteIds, b \in NoteIds :
        a # b => Cardinality(Between(connections, a, b)) <= 1

\* C1 witness: a second connection has been made between the two notes (a
\* flip, or a new edge after a toggle-off) and exactly one edge joins them.
C1_Witness ==
    /\ nextConnId = 3
    /\ Cardinality(Between(connections, 1, 2)) = 1
    /\ \E i \in 1..Len(connections) : connections[i].fromId = 2 /\ connections[i].toId = 1

\* Some pointer-up is handled: the window's mouseup, or the one a move that
\* reports no button synthesizes.
PointerUp == \E pt \in Points, shift \in BOOLEAN : handleMouseUp(pt, shift)

\* C4 (violated): in every reachable state the note selection is empty or no
\* connection is selected.
C4_SelectionExclusive == selectedNoteIds = {} \/ selectedConnectionId = NULL

\* The scratch data of the session is at its reset value.
ScratchReset ==
    /\ interactionState.mode = "NONE"
    /\ interactionState.connectionStartId = NULL
    /\ interactionState.currentHoveredTargetId = NULL
    /\ interactionState.potentialSelectionIds = {}
    /\ interactionState.isOverDeleteZone = FALSE
    /\ interactionState.dragDelta = [x |-> 0, y |-> 0]

\* C5: after every pointer-up, whatever the mode and the outcome of its exit
\* action, the mode is NONE and the session scratch data is reset: no
\* connection source, no hovered target, no candidates, delete-zone flag
\* false, zero drag delta.
C5_PointerUpResets == [][PointerUp => ScratchReset']_vars

\* C5 witness: a pointer-up has closed a CONNECTING session that had a source
\* and a hovered target, and the scratch data is reset.
C5_Witness ==
    /\ session.exit = "connect"
    /\ pressCount = 0
    /\ ScratchReset

\* The total drag of the session: the screen displacement from the press
\* point to the last move, divided by the zoom.
TotalDrag ==
    [x |-> ((session.lastPt.x - session.pressPt.x) * ZoomUnit) \div camera.z,
     y |-> ((session.lastPt.y - session.pressPt.y) * ZoomUnit) \div camera.z]

\* The pointer-up that releases a moved DRAGGING_NOTES session.
DragRelease ==
    /\ PointerUp
    /\ interactionState.mode = "DRAGGING_NOTES"
    /\ session.mode = "DRAGGING_NOTES"
    /\ session.moved

\* C6 (violated): a DRAGGING_NOTES session with a non-zero total drag released
\* outside the delete zone leaves every selected note at its position at the
\* press plus the total drag and every other note where it was, and a
\* pointer-up that finds no session open moves no note.
C6_DragCommitsOnce ==
    [][ /\ ( /\ DragRelease
             /\ TotalDrag # [x |-> 0, y |-> 0]
             /\ ~InDeleteZone(session.lastPt) )
           => /\ Len(notes') = Len(notes)
              /\ \A i \in 1..Len(notes) :
                    notes'[i] =
                        IF notes[i].id \in selectedNoteIds
                        THEN [notes[i] EXCEPT
                                 !.x = NoteOf(session.notes, notes[i].id).x + TotalDrag.x,
                                 !.y = NoteOf(session.notes, notes[i].id).y + TotalDrag.y]
                        ELSE notes[i]
        /\ (PointerUp /\ interactionState.mode = "NONE") => notes' = notes
      ]_vars

\* C7: a DRAGGING_NOTES session released after a last move inside the delete
\* zone removes exactly the selected notes and exactly the connections with
\* an endpoint among them, changes no other note or connection, commits no
\* move and leaves the note selection empty.
C7_DeleteZoneRelease ==
    [][ (DragRelease /\ InDeleteZone(session.lastPt))
           => /\ notes' = SelectSeq(notes, LAMBDA n : n.id \notin selectedNoteIds)
              /\ connections' =
                     SelectSeq(connections, LAMBDA c : /\ c.fromId \notin selectedNoteIds
                                                       /\ c.toId \notin selectedNoteIds)
              /\ selectedNoteIds' = {}
      ]_vars

\* C7 witness: the last pointer-up deleted over the delete zone; of two notes
\* and the connection between them one note is left, nothing is selected.
C7_Witness ==
    /\ session.exit = "delete"
    /\ interactionState.mode = "NONE"
    /\ nextNoteId = 3 /\ Len(notes) = 1
    /\ nextConnId = 2 /\ connections = << >>
    /\ selectedNoteIds = {}

\* The notes of ns whose box overlaps the selection rectangle last drawn.
InFinalRectangle(ns) ==
    LET left == Min(selectionBox.x, selectionBox.x + selectionBox.w)
        right == Max(selectionBox.x, selectionBox.x + selectionBox.w)
        top == Min(selectionBox.y, selectionBox.y + selectionBox.h)
        bottom == Max(selectionBox.y, selectionBox.y + selectionBox.h)
    IN  { ns[i].id : i \in { j \in 1..Len(ns) :
                                /\ ns[j].x < right /\ left < ns[j].x + ns[j].w
                                /\ ns[j].y < bottom /\ top < ns[j].y + ns[j].h } }

\* C8 (violated): a pointer-up in SELECTING with shift up at the press and at
\* the release makes the selection the notes overlapping the final rectangle;
\* with shift held at both it makes it the selection so far joined with them.
C8_BoxSelectCommit ==
    [][ \A shift \in BOOLEAN :
          ( /\ \E pt \in Points : handleMouseUp(pt, shift)
            /\ interactionState.mode = "SELECTING"
            /\ session.mode = "SELECTING"
            /\ session.shift = shift )
          => selectedNoteIds' =
                 (IF shift THEN selectedNoteIds ELSE {}) \cup InFinalRectangle(notes)
      ]_vars

\* The last two handleConnect calls were made one after the other, on the
\* notes a then b and then on the notes c then d, and before them no
\* connection joined a and b.
TwoConnects(a, b, c, d) ==
    /\ Len(connectLog) >= 2
    /\ LET first == connectLog[Len(connectLog) - 1]
           second == connectLog[Len(connectLog)]
       IN  /\ first.sourceId = a /\ first.targetId = b
           /\ second.sourceId = c /\ second.targetId = d
           /\ Between(first.before, a, b) = {}

\* The connections before the last two handleConnect calls.
BeforeTwoConnects == connectLog[Len(connectLog) - 1].before

\* C2: for distinct notes A and B that no connection joins, connect(A,B)
\* followed by connect(A,B) leaves no connection between A and B and every
\* other connection as it was.
C2_ConnectTwiceTogglesOff ==
    \A a \in 1..MaxBoardNotes, b \in 1..MaxBoardNotes :
        (a # b /\ TwoConnects(a, b, a, b))
            => /\ Between(connections, a, b) = {}
               /\ connections = BeforeTwoConnects

\* C2 witness: connect(1,2) was called twice on a board that held other
\* connections and none between 1 and 2, and they are all that is left.
C2_Witness ==
    /\ TwoConnects(1, 2, 1, 2)
    /\ BeforeTwoConnects # << >>
    /\ connections = BeforeTwoConnects

\* C3 (as stated, violated): for distinct notes A and B that no connection
\* joins, connect(A,B) followed by connect(B,A) leaves no connection between
\* A and B.
C3_FlipThenToggleLeavesNone ==
    \A a \in 1..MaxBoardNotes, b \in 1..MaxBoardNotes :
        (a # b /\ TwoConnects(a, b, b, a)) => Between(connections, a, b) = {}

\* C3 (amended): for distinct notes A and B that no connection joins,
\* connect(A,B) followed by connect(B,A) leaves exactly one connection between
\* A and B, directed from B to A.
C3_ConnectThenReverseFlips ==
    \A a \in 1..MaxBoardNotes, b \in 1..MaxBoardNotes :
        (a # b /\ TwoConnects(a, b, b, a))
            => /\ Cardinality(Between(connections, a, b)) = 1
               /\ \A i \in Between(connections, a, b) :
                      connections[i].fromId = b /\ connections[i].toId = a

\* C3 witness: connect(1,2) then connect(2,1) were called on a board with no
\* connection between 1 and 2, and a connection from 2 to 1 is there.
C3_Witness ==
    /\ TwoConnects(1, 2, 2, 1)
    /\ \E i \in 1..Len(connections) : connections[i].fromId = 2 /\ connections[i].toId = 1

\* The notes a connection of conns leads to from a note of S.
Children(conns, S) == { conns[i].toId : i \in { j \in 1..Len(conns) : conns[j].fromId \in S } }

\* The notes reached from S along at most k more connections.
RECURSIVE Descendants(_, _, _)
Descendants(conns, S, k) ==
    IF k = 0 THEN S ELSE Descendants(conns, S \cup Children(conns, S), k - 1)

\* No note of ns is reached from itself along the connections between notes.
Acyclic(ns, conns) ==
    LET between == SelectSeq(conns, LAMBDA c : c.fromId \in Ids(ns) /\ c.toId \in Ids(ns))
    IN  \A id \in Ids(ns) : id \notin Descendants(between, Children(between, {id}), Len(ns))

\* The coordinate of note id along the rank axis of the direction.
AlongRankAxis(ns, id, direction) ==
    IF direction = "horizontal" THEN NoteOf(ns, id).x ELSE NoteOf(ns, id).y

\* C9: auto-layout of an acyclic board gives the target of every connection
\* between two notes a rank at least one above its source's, and places it at
\* least one layer spacing further along the rank axis.
C9_RankMonotone ==
    [][ \A direction \in {"horizontal", "vertical"} :
          (handleAutoLayout(direction) /\ Acyclic(notes, connections))
          => \A i \in 1..Len(connections) :
                (connections[i].fromId \in Ids(notes) /\ connections[i].toId \in Ids(notes))
                => /\ Ranked(notes, connections).ranks[connections[i].toId]
                        >= Ranked(notes, connections).ranks[connections[i].fromId] + 1
                   /\ AlongRankAxis(notes', connections[i].toId, direction)
                        - AlongRankAxis(notes', connections[i].fromId, direction)
                        >= (IF direction = "horizontal" THEN HORIZONTAL_LAYER_SPACING
                            ELSE VERTICAL_LAYER_SPACING)
      ]_vars

\* C9 witness: a vertical layout has run on an acyclic board where note 3 has
\* the parents 2 and 1 and note 2 the parent 1; note 3 stands two layers
\* below note 1.
C9_Witness ==
    /\ Len(past) = 1 /\ connectionStyle = "step"
    /\ Len(notes) = 3 /\ Acyclic(notes, connections)
    /\ connections = << [id |-> 1, fromId |-> 2, toId |-> 3],
                        [id |-> 2, fromId |-> 1, toId |-> 3],
                        [id |-> 3, fromId |-> 1, toId |-> 2] >>
    /\ NoteOf(notes, 3).y - NoteOf(notes, 1).y = 2 * VERTICAL_LAYER_SPACING

\* Twice the centre of the bounding box of the notes of ns.
TwiceBoxCentre(ns) ==
    [x |-> Least({ ns[i].x : i \in 1..Len(ns) }) + Greatest({ ns[i].x + ns[i].w : i \in 1..Len(ns) }),
     y |-> Least({ ns[i].y : i \in 1..Len(ns) }) + Greatest({ ns[i].y + ns[i].h : i \in 1..Len(ns) })]

\* Twice the centre of the bounding box of the positions of the notes of ns.
TwiceCornerCentre(ns) ==
    [x |-> Least({ ns[i].x : i \in 1..Len(ns) }) + Greatest({ ns[i].x : i \in 1..Len(ns) }),
     y |-> Least({ ns[i].y : i \in 1..Len(ns) }) + Greatest({ ns[i].y : i \in 1..Len(ns) })]

\* The sum of the positions of the notes of ns.
PositionSum(ns) ==
    [x |-> Sum([ i \in 1..Len(ns) |-> ns[i].x ]), y |-> Sum([ i \in 1..Len(ns) |-> ns[i].y ])]

\* C10 (as stated, violated): auto-layout of a non-empty board, in either
\* direction, leaves the centre of the bounding box of all notes where it was,
\* the box taken around the notes or around their positions.
C10_BoxCentreKept ==
    [][ \A direction \in {"horizontal", "vertical"} :
          handleAutoLayout(direction)
          => \/ TwiceBoxCentre(notes') = TwiceBoxCentre(notes)
             \/ TwiceCornerCentre(notes') = TwiceCornerCentre(notes)
      ]_vars

\* C10 (amended): after auto-layout of a non-empty board, in either direction,
\* the centre of the bounding box of the notes' positions (their top-left
\* corners) is the mean of the notes' positions before.
C10_CornerCentreAtMean ==
    [][ \A direction \in {"horizontal", "vertical"} :
          handleAutoLayout(direction)
          => /\ TwiceCornerCentre(notes').x * Len(notes) = 2 * PositionSum(notes).x
             /\ TwiceCornerCentre(notes').y * Len(notes) = 2 * PositionSum(notes).y
      ]_vars

\* C10 witness: a layout has run on three notes whose mean position was not
\* the centre of their positions' bounding box, and the centre is now at that
\* mean.
C10_Witness ==
    /\ Len(past) = 1 /\ Len(notes) = 3
    /\ TwiceCornerCentre(past[1].notes).x * 3 # 2 * PositionSum(past[1].notes).x
    /\ TwiceCornerCentre(notes).x * 3 = 2 * PositionSum(past[1].notes).x
    /\ TwiceCornerCentre(notes).y * 3 = 2 * PositionSum(past[1].notes).y

\* C11: a wheel zoom, from any camera, at any cursor point and for any delta,
\* the clamped ones included, keeps the world coordinate under the cursor:
\* (screen - offset) / z is the same before and after.
C11_WheelKeepsAnchor ==
    [][ \A pt \in Points, deltaY \in WheelDeltas :
          handleWheel(pt, deltaY)
          => /\ (pt.x - camera'.x) * camera.z = (pt.x - camera.x) * camera'.z
             /\ (pt.y - camera'.y) * camera.z = (pt.y - camera.y) * camera'.z
      ]_vars

\* C11 witness: two wheel events zoomed in to the upper clamp, the second one
\* asking for more, and the camera offset moved with the zoom.
C11_Witness ==
    /\ zoomLog.count = 2 /\ zoomLog.clamped /\ zoomLog.zoomed
    /\ camera.z = MaxZoom
    /\ camera.x # 0 /\ camera.y # 0

\* C19 (violated): in every reachable state the zoom is within the clamp,
\* 0.1 to 5.
C19_ZoomWithinClamp == MinZoom <= camera.z /\ camera.z <= MaxZoom

\* C12 (violated): in every reachable state both endpoints of every connection
\* are ids of notes that exist.
C12_NoDanglingEdges ==
    \A i \in 1..Len(connections) :
        connections[i].fromId \in Ids(notes) /\ connections[i].toId \in Ids(notes)

\* C13: a move that reports no button held while a session is open runs the
\* exit action of the mode on the scratch data as the event found it (the
\* context menu of an unmoved pan, the candidates of a box-select, the drag
\* delta of a drag), leaves the mode NONE and the scratch data reset, and
\* updates nothing else: not the camera, not the candidates, not the delta.
C13_NoButtonMoveReleases ==
    [][ \A pt \in Points, shift \in BOOLEAN :
          MouseMove(pt, shift, 0)
          => /\ ScratchReset'
             /\ camera' = camera
             /\ selectionBox' = NoBox
             /\ session'.exit = ExitAction
             /\ interactionState.mode = "PANNING"
                   => contextMenu' = IF interactionState.dragDistance < ThresholdSq
                                     THEN pt ELSE contextMenu
             /\ interactionState.mode = "SELECTING"
                   => selectedNoteIds' = (IF shift THEN selectedNoteIds ELSE {})
                                             \cup interactionState.potentialSelectionIds
             /\ ( /\ interactionState.mode = "DRAGGING_NOTES"
                  /\ ~interactionState.isOverDeleteZone
                  /\ selectedNoteIds # {} )
                   => notes' = MoveUpdater(notes, selectedNoteIds,
                                           CHOOSE id \in selectedNoteIds : TRUE,
                                           interactionState.dragDelta)
      ]_vars

\* C13 witness: mouseups never arrive, and a move that reported no button
\* held has committed a drag of note 1 and left the scratch data reset.
C13_Witness ==
    /\ session.exit = "move"
    /\ ScratchReset
    /\ Len(notes) >= 1 /\ notes[1].id = 1 /\ notes[1].x # INITIAL_NOTE.x

\* C14 (violated): every pointer-up, one whose callback throws included, ends
\* with the mode NONE and the scratch data reset.
C14_ThrowingPointerUpResets ==
    [][ (PointerUp \/ MouseUpThrowing) => ScratchReset' ]_vars

\* The pointer-up that closes a CONNECTING session opened by a secondary press
\* on a note.
ConnectRelease ==
    /\ \E pt \in LinkPoints \cup RepressPoints, shift \in BOOLEAN : handleMouseUp(pt, shift)
    /\ interactionState.mode = "CONNECTING"
    /\ session.mode = "CONNECTING"

\* C15: the pointer-up of a CONNECTING session with a hovered target requests
\* connect(S, T) once, S the note the secondary press was on and T the target
\* the last move found under the cursor, and creates no note.
C15_ConnectOnHoveredTarget ==
    [][ (ConnectRelease /\ interactionState.currentHoveredTargetId # NULL)
           => /\ session.moved
              /\ interactionState.currentHoveredTargetId =
                     HoverTarget(notes, session.noteId,
                                 screenToWorld(session.lastPt, camera), camera)
              /\ connections' = ConnectUpdater(connections, session.noteId,
                                               interactionState.currentHoveredTargetId,
                                               FreshConnId)
              /\ past' = SavedPast
              /\ notes' = notes
      ]_vars

\* C15 witness: note 2 was created from note 1, and a connect gesture from
\* note 2 onto note 1 has turned the connection round.
C15_Witness ==
    /\ session.exit = "connect"
    /\ interactionState.mode = "NONE"
    /\ Len(notes) = 2
    /\ connections = << [id |-> 2, fromId |-> 2, toId |-> 1] >>

\* The square of the click threshold, 5 screen pixels.
FivePixelsSq == 25

\* C16 (violated): the pointer-up of a CONNECTING session from the note S with
\* no hovered target, after a move more than 5 screen pixels from the press
\* point, adds one note, 280 by 140 and centred at the world position of the
\* release point, and one connection from S to it; every note and connection
\* there was stays as it was.
C16_DragToEmptyCreates ==
    [][ \A pt \in LinkPoints \cup RepressPoints :
          ( /\ \E shift \in BOOLEAN : handleMouseUp(pt, shift)
            /\ interactionState.mode = "CONNECTING" /\ session.mode = "CONNECTING"
            /\ interactionState.currentHoveredTargetId = NULL
            /\ session.far )
          => /\ Len(notes') = Len(notes) + 1
             /\ SubSeq(notes', 1, Len(notes)) = notes
             /\ notes'[Len(notes')].id \notin Ids(notes)
             /\ notes'[Len(notes')].w = 280 /\ notes'[Len(notes')].h = 140
             /\ 2 * notes'[Len(notes')].x + 280 = 2 * screenToWorld(pt, camera).x
             /\ 2 * notes'[Len(notes')].y + 140 = 2 * screenToWorld(pt, camera).y
             /\ Len(connections') = Len(connections) + 1
             /\ SubSeq(connections', 1, Len(connections)) = connections
             /\ connections'[Len(connections')].id \notin Ids(connections)
             /\ connections'[Len(connections')].fromId = session.noteId
             /\ connections'[Len(connections')].toId = notes'[Len(notes')].id
      ]_vars

\* C17 (violated): the pointer-up of a CONNECTING session with no hovered
\* target, the pointer never seen more than 5 screen pixels from the press
\* point, changes neither the notes nor the connections and uses no new id,
\* and neither do the press that opens a CONNECTING session and the moves
\* during it.
C17_ClickConnectNoOp ==
    [][ /\ ( /\ ConnectRelease
             /\ interactionState.currentHoveredTargetId = NULL
             /\ session.reach <= FivePixelsSq )
           => /\ notes' = notes /\ connections' = connections
              /\ nextNoteId' = nextNoteId /\ nextConnId' = nextConnId
              /\ session'.exit = "none"
        /\ ( \/ session.mode = "NONE" /\ session'.mode = "CONNECTING"
             \/ /\ session.mode = "CONNECTING" /\ session'.mode = "CONNECTING"
                /\ session'.lastPt # session.lastPt )
           => notes' = notes /\ connections' = connections
      ]_vars

\* C18 (violated): at the pointer-up of a PANNING session the context menu is
\* requested only if no move was 5 or more screen pixels away from the press
\* point, so that the camera offset is within 5 pixels of where the press
\* found it; after a pan of 5 pixels or more the pointer-up requests nothing.
C18_MenuOnlyAfterClick ==
    [][ ( /\ \E pt \in PanPoints : handleMouseUp(pt, FALSE)
          /\ interactionState.mode = "PANNING" /\ session.mode = "PANNING" )
           => /\ contextMenu' # contextMenu
                    => /\ session.reach < FivePixelsSq
                       /\ DistSq(camera, session.offset) < FivePixelsSq
              /\ DistSq(camera, session.offset) >= FivePixelsSq
                    => contextMenu' = contextMenu
      ]_vars

\* The coordinate of note id across the rank axis of the direction.
AcrossRankAxis(ns, id, direction) ==
    IF direction = "horizontal" THEN NoteOf(ns, id).y ELSE NoteOf(ns, id).x

\* C20: after auto-layout two notes of the same rank have the same coordinate
\* along the rank axis (y for vertical, x for horizontal) and different
\* coordinates across it, and two notes of different ranks have different
\* coordinates along the rank axis; no two notes share a position.
C20_LayersSeparateNotes ==
    [][ \A direction \in {"horizontal", "vertical"} :
          handleAutoLayout(direction)
          => \A a \in Ids(notes), b \in Ids(notes) :
                a # b
                => /\ IF Ranked(notes, connections).ranks[a] = Ranked(notes, connections).ranks[b]
                      THEN /\ AlongRankAxis(notes', a, direction) = AlongRankAxis(notes', b, direction)
                           /\ AcrossRankAxis(notes', a, direction) # AcrossRankAxis(notes', b, direction)
                      ELSE AlongRankAxis(notes', a, direction) # AlongRankAxis(notes', b, direction)
                   /\ \/ NoteOf(notes', a).x # NoteOf(notes', b).x
                      \/ NoteOf(notes', a).y # NoteOf(notes', b).y
      ]_vars

\* C20 witness: a vertical layout has run on the board with the connections
\* 1 -> 2 and 1 -> 3; notes 2 and 3 have one y and different x, below note 1.
C20_Witness ==
    /\ Len(past) = 1 /\ connectionStyle = "step"
    /\ Len(notes) = 3
    /\ connections = << [id |-> 1, fromId |-> 1, toId |-> 2],
                        [id |-> 2, fromId |-> 1, toId |-> 3] >>
    /\ NoteOf(notes, 2).y = NoteOf(notes, 3).y
    /\ NoteOf(notes, 2).x # NoteOf(notes, 3).x
    /\ NoteOf(notes, 2).y > NoteOf(notes, 1).y

\* The connections whose two endpoints are notes.
Sound(ns, conns) ==
    SelectSeq(conns, LAMBDA c : c.fromId \in Ids(ns) /\ c.toId \in Ids(ns))

\* A note lies on a cycle of connections: it is reached from its own children.
OnCycle(ns, conns, id) ==
    id \in Descendants(conns, Children(conns, {id}), Len(ns))

\* C21: auto-layout ends on every board, with cycles, self-loops and
\* connections from a note that is gone: every note has a rank and a place in
\* newPositions and is moved there, and the ranks are those of the board
\* without the connections that miss an endpoint.
C21_LayoutCoversEveryNote ==
    [][ \A direction \in {"horizontal", "vertical"} :
          handleAutoLayout(direction)
          => LET memo == Ranked(notes, connections)
                 l == Layout(notes, NewPositions(notes, connections, direction))
             IN  /\ \A i \in 1..Len(notes) :
                        /\ memo.ranks[notes[i].id] \in Nat
                        /\ notes[i].id \in DOMAIN l.newPositions
                        /\ notes'[i].id = notes[i].id
                        /\ notes'[i].x = l.newPositions[notes[i].id].x + l.offsetX
                        /\ notes'[i].y = l.newPositions[notes[i].id].y + l.offsetY
                 /\ Len(notes') = Len(notes)
                 /\ memo.ranks = Ranked(notes, Sound(notes, connections)).ranks
      ]_vars

\* C21 witness: a board of three notes on a cycle, one of them connected to
\* itself and one reached from a note that is gone, has been laid out.
C21_Witness ==
    /\ past # << >>
    /\ Len(notes) = 3
    /\ \A i \in 1..Len(notes) : OnCycle(notes, Sound(notes, connections), notes[i].id)
    /\ \E i \in 1..Len(connections) : connections[i].fromId = connections[i].toId
    /\ \E i \in 1..Len(connections) : connections[i].fromId \notin Ids(notes)

\* C22: at most one generation request, for ideas or for a summary, awaits
\* the service at any time, and while one does the toolbar's generation
\* buttons are disabled whatever note is selected.
C22_SingleFlight ==
    /\ Cardinality(generation.inFlight) <= 1
    /\ generation.inFlight # {} => generation.isBrainstorming

\* C22 witness: the second request of the run awaits the service while the
\* toolbar shows for another note than the one it was made for.
C22_Witness ==
    /\ ToolbarShown
    /\ \E r \in generation.inFlight :
           /\ r.req = 2
           /\ Cardinality(selectedNoteIds) = 1
           /\ r.sourceNote.id \notin selectedNoteIds
\* The connections with an endpoint among the ids.
Touching(conns, ids) == SelectSeq(conns, LAMBDA c : c.fromId \in ids \/ c.toId \in ids)

\* C23 (violated): when a request for ideas fails, its placeholder notes and
\* every connection with a placeholder at either end are gone, a notice is
\* set, and the other notes and connections are as they were.
C23_FailureRollsBack ==
    [][ \A r \in generation.inFlight :
          AIBrainstormRejected(r)
          => LET ids == Range(r.placeholderIds)
             IN  /\ Ids(notes') \cap ids = {}
                 /\ Touching(connections', ids) = << >>
                 /\ generation'.errorMsg # ""
                 /\ notes' = SelectSeq(notes, LAMBDA n : n.id \notin ids)
                 /\ connections' =
                        SelectSeq(connections,
                                  LAMBDA c : c.fromId \notin ids /\ c.toId \notin ids)
      ]_vars

\* C24 (violated): when a request for ideas resolves, every placeholder note
\* stays where it is in the note list, no longer carries a pending id, and is
\* still the target of a connection from the source note; every connection
\* made for the request ends at an existing note.
C24_ResolvePatchesInPlace ==
    [][ \A r \in generation.inFlight :
          AIBrainstormResolved(r)
          => LET ids == Range(r.placeholderIds)
             IN  /\ Len(notes') = Len(notes)
                 /\ \A i \in 1..Len(notes) :
                        notes[i].id \in ids
                        => /\ ~IsPending(notes'[i].id)
                           /\ notes'[i].x = notes[i].x /\ notes'[i].y = notes[i].y
                           /\ (\E j \in 1..Len(connections) :
                                   /\ connections[j].fromId = r.sourceNote.id
                                   /\ connections[j].toId = notes[i].id)
                              => \E j \in 1..Len(connections') :
                                    /\ connections'[j].fromId = r.sourceNote.id
                                    /\ connections'[j].toId = notes'[i].id
                 /\ \A j \in 1..Len(connections) :
                        ( /\ connections[j].toId \in ids
                          /\ connections[j].fromId \in Ids(notes) )
                        => /\ connections'[j].fromId \in Ids(notes')
                           /\ connections'[j].toId \in Ids(notes')
      ]_vars
\* The last handleConnect call was connect(a, b), made when exactly one
\* connection joined a and b, from b to a.
FlipCall(a, b) ==
    /\ Len(connectLog) >= 1
    /\ LET last == connectLog[Len(connectLog)]
       IN  /\ last.sourceId = a /\ last.targetId = b
           /\ Cardinality(Between(last.before, a, b)) = 1
           /\ \A i \in Between(last.before, a, b) :
                  last.before[i].fromId = b /\ last.before[i].toId = a

\* The connections of conns that do not join a and b, in their order.
Apart(conns, a, b) ==
    SelectSeq(conns, LAMBDA c : ~( \/ c.fromId = a /\ c.toId = b
                                   \/ c.fromId = b /\ c.toId = a ))

\* C25: connect(A, B) on distinct notes joined by exactly the connection from
\* B to A leaves exactly one connection between them, from A to B, and every
\* connection that does not join A and B as it was.
C25_FlipReversesEdge ==
    \A a \in 1..MaxBoardNotes, b \in 1..MaxBoardNotes :
        (a # b /\ FlipCall(a, b))
            => /\ Cardinality(Between(connections, a, b)) = 1
               /\ \A i \in Between(connections, a, b) :
                      connections[i].fromId = a /\ connections[i].toId = b
               /\ Apart(connections, a, b) =
                      Apart(connectLog[Len(connectLog)].before, a, b)

\* C25 witness: connect(1, 2) has flipped the connection from 2 to 1 on a
\* board where another connection leaves note 2.
C25_Witness ==
    /\ FlipCall(1, 2)
    /\ \E i \in 1..Len(connections) : connections[i].fromId = 2 /\ connections[i].toId = 3
    /\ \E i \in 1..Len(connections) : connections[i].fromId = 1 /\ connections[i].toId = 2
\* C26 (violated): with no session open, a press on the empty canvas enters
\* PANNING for the secondary and SELECTING (box select) for the primary
\* button, a press on a note CONNECTING for the secondary and DRAGGING_NOTES
\* for the primary button, and a press of another button leaves the mode NONE.
C26_ModeFromButtonAndTarget ==
    [][ interactionState.mode = "NONE"
          => /\ \A pt \in Points, b \in Buttons, shift \in BOOLEAN :
                    CanvasMouseDown(pt, b, shift)
                    => interactionState'.mode =
                          (IF b = 2 THEN "PANNING" ELSE IF b = 0 THEN "SELECTING" ELSE "NONE")
             /\ \A id \in NoteIds, pt \in Points, b \in Buttons, shift \in BOOLEAN,
                       menuCloses \in BOOLEAN :
                    NoteMouseDown(id, pt, b, shift, menuCloses)
                    => interactionState'.mode =
                          (IF b = 2 THEN "CONNECTING"
                           ELSE IF b = 0 THEN "DRAGGING_NOTES" ELSE "NONE")
      ]_vars
\* A pointer-down that arrives while a session is open.
FurtherPress ==
    /\ interactionState.mode # "NONE"
    /\ \/ \E pt \in Points, b \in Buttons, shift \in BOOLEAN : CanvasMouseDown(pt, b, shift)
       \/ \E id \in NoteIds, pt \in Points, b \in Buttons, shift \in BOOLEAN,
                menuCloses \in BOOLEAN : NoteMouseDown(id, pt, b, shift, menuCloses)

\* C27 (violated): while a session is open, a step that is no pointer-up (real
\* or synthesized) keeps the mode, and a further pointer-down also keeps the
\* session's drag origin, drag distance and drag delta.
C27_ModeFixedUntilRelease ==
    [][ /\ (interactionState.mode # "NONE" /\ ~PointerUp)
           => interactionState'.mode = interactionState.mode
        /\ FurtherPress
           => /\ interactionState'.dragStart = interactionState.dragStart
              /\ interactionState'.dragDistance = interactionState.dragDistance
              /\ interactionState'.dragDelta = interactionState.dragDelta
      ]_vars
\* C28: a primary press on note N opens a DRAGGING_NOTES session and makes the
\* selection {N} when N was not selected and no shift key is held, adds N to
\* the selection when N was not selected and shift is held, and leaves the
\* selection as it is when N was selected.
C28_PressSelects ==
    [][ \A id \in NoteIds, pt \in Points, shift \in BOOLEAN, menuCloses \in BOOLEAN :
           NoteMouseDown(id, pt, 0, shift, menuCloses)
           => /\ interactionState'.mode = "DRAGGING_NOTES"
              /\ id \notin selectedNoteIds /\ ~shift => selectedNoteIds' = {id}
              /\ id \notin selectedNoteIds /\ shift
                    => selectedNoteIds' = selectedNoteIds \cup {id}
              /\ id \in selectedNoteIds => selectedNoteIds' = selectedNoteIds
      ]_vars

\* A shift press on note 2 has opened a drag with notes 1 and 2 selected.
C28_Witness ==
    /\ session.mode = "DRAGGING_NOTES"
    /\ session.noteId = 2
    /\ session.shift
    /\ ~session.moved
    /\ selectedNoteIds = {1, 2}
\* C29: a pointer-move that reports a held button leaves the notes, the
\* connections, the note selection and the connection selection as they were
\* in every mode, and changes the camera in no mode but PANNING.
C29_MoveKeepsCanonicalState ==
    [][ \A pt \in Points, shift \in BOOLEAN :
           MouseMove(pt, shift, 1)
           => /\ notes' = notes
              /\ connections' = connections
              /\ selectedNoteIds' = selectedNoteIds
              /\ selectedConnectionId' = selectedConnectionId
              /\ camera' # camera => interactionState.mode = "PANNING"
      ]_vars

\* A box-select move has found candidates and none of them is selected.
C29_Witness ==
    /\ interactionState.mode = "SELECTING"
    /\ session.moved
    /\ interactionState.potentialSelectionIds # {}
    /\ interactionState.potentialSelectionIds \cap selectedNoteIds = {}
\* C30: after every move of a PANNING session the camera offset is the offset
\* at the press plus the pointer's position at that move minus its position
\* at the press, at any zoom and over any number of moves; the move leaves the
\* zoom, the notes, the connections and the selection as they were.
C30_PanFollowsPointer ==
    [][ ( /\ interactionState.mode = "PANNING"
          /\ \E pt \in PanPoints : MouseMove(pt, FALSE, 1) )
           => /\ camera'.x = session'.offset.x + (session'.lastPt.x - session'.pressPt.x)
              /\ camera'.y = session'.offset.y + (session'.lastPt.y - session'.pressPt.y)
              /\ camera'.z = camera.z
              /\ notes' = notes
              /\ connections' = connections
              /\ selectedNoteIds' = selectedNoteIds
              /\ selectedConnectionId' = selectedConnectionId
      ]_vars

\* A pan at a zoom other than 1 has moved the camera, and the pointer has
\* been farther from the press point than it is now (the path had more than
\* one move).
C30_Witness ==
    /\ interactionState.mode = "PANNING"
    /\ camera.z # ZoomUnit
    /\ [x |-> camera.x, y |-> camera.y] # session.offset
    /\ session.reach > DistSq(session.lastPt, session.pressPt)
\* The cursor's world position and the margin 20 / zoom are whole numbers
\* (the model rounds them down where the code keeps fractions).
WholeHover(pt, cam) ==
    /\ ((pt.x - cam.x) * ZoomUnit) % cam.z = 0
    /\ ((pt.y - cam.y) * ZoomUnit) % cam.z = 0
    /\ (HoverBuffer * ZoomUnit) % cam.z = 0

\* The zoom in steps of the zoom buttons (tenths), and 1 in that unit; the
\* zoom of the runs below is a whole number of steps.
ZoomSteps(cam) == cam.z \div ZoomStep
OneInSteps == ZoomUnit \div ZoomStep

\* The cursor at the screen point pt is inside the box of note n grown by
\* 20 / zoom world units on every side (both sides of each comparison are
\* multiplied by the zoom).
InGrownBox(n, pt, cam) ==
    LET sx == (pt.x - cam.x) * OneInSteps
        sy == (pt.y - cam.y) * OneInSteps
    IN  /\ sx >= n.x * ZoomSteps(cam) - HoverBuffer * OneInSteps
        /\ sx <= (n.x + n.w) * ZoomSteps(cam) + HoverBuffer * OneInSteps
        /\ sy >= n.y * ZoomSteps(cam) - HoverBuffer * OneInSteps
        /\ sy <= (n.y + n.h) * ZoomSteps(cam) + HoverBuffer * OneInSteps

\* Twice the zoom times the distance from the cursor at pt to the centre of
\* note n, squared.
CentreDistSq(n, pt, cam) ==
    LET dx == 2 * (pt.x - cam.x) * OneInSteps - (2 * n.x + n.w) * ZoomSteps(cam)
        dy == 2 * (pt.y - cam.y) * OneInSteps - (2 * n.y + n.h) * ZoomSteps(cam)
    IN  dx * dx + dy * dy

\* C31: after each move of a CONNECTING session (at a zoom where the cursor's
\* world position and the margin are whole) the hovered target is null
\* when no note other than the source has the cursor in its box grown by
\* 20 / zoom; otherwise it is a note other than the source with the cursor in
\* its grown box, no such note has its centre nearer to the cursor, and none
\* that is as near comes earlier in the note order.
C31_HoverNearestCandidate ==
    [][ \A pt \in HoverPoints :
          ( /\ MouseMove(pt, FALSE, 1)
            /\ interactionState.mode = "CONNECTING"
            /\ camera.z % ZoomStep = 0
            /\ WholeHover(pt, camera) )
          => LET src == interactionState.connectionStartId
                 cands == { i \in 1..Len(notes) :
                              notes[i].id # src /\ InGrownBox(notes[i], pt, camera) }
                 hovered == interactionState'.currentHoveredTargetId
             IN  /\ hovered # src
                 /\ cands = {} => hovered = NULL
                 /\ cands # {}
                       => \E i \in cands :
                             /\ hovered = notes[i].id
                             /\ \A j \in cands :
                                   \/ CentreDistSq(notes[i], pt, camera)
                                         < CentreDistSq(notes[j], pt, camera)
                                   \/ /\ CentreDistSq(notes[i], pt, camera)
                                           = CentreDistSq(notes[j], pt, camera)
                                      /\ i <= j
      ]_vars

\* A connect gesture from note 1 hovers note 2 with the cursor as near to the
\* centre of note 3, which is a candidate too.
C31_Witness ==
    /\ interactionState.mode = "CONNECTING"
    /\ interactionState.connectionStartId = 1
    /\ interactionState.currentHoveredTargetId = 2
    /\ session.moved
    /\ WholeHover(session.lastPt, camera)
    /\ InGrownBox(notes[3], session.lastPt, camera)
    /\ CentreDistSq(notes[2], session.lastPt, camera)
          = CentreDistSq(notes[3], session.lastPt, camera)
\* The notes with a connection to the note id, among the connections whose
\* two endpoints are notes of ns.
ParentsOf(ns, conns, id) ==
    { conns[i].fromId : i \in { j \in 1..Len(conns) :
                                  /\ conns[j].toId = id
                                  /\ conns[j].fromId \in Ids(ns) /\ conns[j].toId \in Ids(ns) } }

\* C32: auto-layout of an acyclic board gives rank 0 to every note with no
\* parent among the connections between two notes and to every other note 1
\* plus the greatest rank of its parents; every rank from 0 to the greatest has
\* a note, and the notes stand one layer spacing per rank apart along the rank
\* axis.
C32_LongestPathRanks ==
    [][ \A direction \in {"horizontal", "vertical"} :
          (handleAutoLayout(direction) /\ Acyclic(notes, connections))
          => LET ranks == Ranked(notes, connections).ranks
                 top == Greatest({ ranks[id] : id \in Ids(notes) })
                 spacing == IF direction = "horizontal" THEN HORIZONTAL_LAYER_SPACING
                            ELSE VERTICAL_LAYER_SPACING
             IN  /\ \A id \in Ids(notes) :
                        ranks[id] =
                            IF ParentsOf(notes, connections, id) = {} THEN 0
                            ELSE 1 + Greatest({ ranks[p] :
                                                  p \in ParentsOf(notes, connections, id) })
                 /\ \A r \in 0..top : \E id \in Ids(notes) : ranks[id] = r
                 /\ \A a \in Ids(notes), b \in Ids(notes) :
                        AlongRankAxis(notes', a, direction) - AlongRankAxis(notes', b, direction)
                            = (ranks[a] - ranks[b]) * spacing
      ]_vars

\* A horizontal layout has run on an acyclic board of three notes with a
\* connection from a note that is gone: one note has the two others as
\* parents, one of them the parent of the other, and stands two layers right
\* of the first.
C32_Witness ==
    /\ Len(past) = 1 /\ Len(notes) = 3
    /\ Acyclic(notes, connections)
    /\ \E i \in 1..Len(connections) : connections[i].fromId \notin Ids(notes)
    /\ \E a \in Ids(notes), b \in Ids(notes), c \in Ids(notes) :
          /\ ParentsOf(notes, connections, c) = {a, b}
          /\ ParentsOf(notes, connections, b) = {a}
          /\ NoteOf(notes, b).x - NoteOf(notes, a).x = HORIZONTAL_LAYER_SPACING
          /\ NoteOf(notes, c).x - NoteOf(notes, a).x = 2 * HORIZONTAL_LAYER_SPACING
\* C33: auto-layout of a board with notes keeps the notes' ids, order and
\* sizes, the connections, the note and connection selection and the camera,
\* and sets the connection style to curve (horizontal) or step (vertical);
\* on a board with no note it does nothing.
C33_LayoutFrame ==
    [][ \A direction \in {"horizontal", "vertical"} :
          /\ handleAutoLayout(direction)
                => /\ Len(notes') = Len(notes)
                   /\ \A i \in 1..Len(notes) :
                          /\ notes'[i].id = notes[i].id
                          /\ notes'[i].w = notes[i].w
                          /\ notes'[i].h = notes[i].h
                   /\ connections' = connections
                   /\ selectedNoteIds' = selectedNoteIds
                   /\ selectedConnectionId' = selectedConnectionId
                   /\ camera' = camera
                   /\ connectionStyle' = IF direction = "horizontal" THEN "curve" ELSE "step"
          /\ Len(notes) = 0 => ~ENABLED handleAutoLayout(direction)
      ]_vars

\* A vertical layout has put note 2 one layer below note 1, with both notes
\* selected and the camera panned.
C33_Witness ==
    /\ connectionStyle = "step"
    /\ selectedNoteIds = {1, 2}
    /\ camera.x # 0
    /\ Len(notes) = 2
    /\ NoteOf(notes, 2).y - NoteOf(notes, 1).y = VERTICAL_LAYER_SPACING
    /\ NoteOf(notes, 2).x = NoteOf(notes, 1).x
\* C34 (violated): when the pointer-up of a DRAGGING_NOTES session has changed
\* note positions, the snapshot a single undo restores holds the notes as they
\* were at the press and the connections (which the drag leaves alone).
C34_DragUndoneAlone ==
    [][ (DragRelease /\ notes' # notes /\ Ids(notes') = Ids(notes))
           => /\ past' # << >>
              /\ past'[Len(past')] = [notes |-> session.notes, connections |-> connections]
      ]_vars
\* C35 (violated): in every reachable state every selected note id is the id
\* of a note that exists.
C35_SelectionExists == selectedNoteIds \subseteq Ids(notes)
\* C36 (violated): in every reachable state no connection leads from a note to
\* that same note.
C36_NoSelfLoop == \A c \in Range(connections) : c.fromId # c.toId
\* C37 (violated): whenever the controller is idle (mode NONE) every existing
\* note is drawn at its canonical position: its element carries no offset.
C37_NoResidualOffset ==
    interactionState.mode = "NONE"
        => \A i \in 1..Len(notes) : TransformOf(notes[i].id) = [x |-> 0, y |-> 0]
\* The placeholder notes of the t-th request that are on the board.
PendingOf(t) == { id \in Ids(notes) : \E i \in 0..2 : id = PendingId(t, i) }

\* C38: a request leaves nothing behind once it has resolved or rejected: with
\* no request awaiting the service isBrainstorming is false and no note is
\* marked pending; a set isBrainstorming becomes false again, and the
\* placeholders of every request leave the board.
C38_RequestsSettle ==
    /\ [](generation.inFlight = {}
            => /\ ~generation.isBrainstorming
               /\ \A id \in Ids(notes) : ~IsPending(id))
    /\ generation.isBrainstorming ~> ~generation.isBrainstorming
    /\ \A t \in 1..MaxRequests : (PendingOf(t) # {}) ~> (PendingOf(t) = {})

\* Every request of the run has been made and is over, one of them rejected,
\* and the flag is down.
C38_Witness ==
    /\ generation.started = MaxRequests
    /\ generation.inFlight = {}
    /\ generation.errorMsg \in {"Failed to generate ideas.", "Failed to summarize.",
                                "AI generation failed. Check API Key."}
    /\ ~generation.isBrainstorming
====
